---- MODULE Spec2Model ----
(***************************************************************************)
(* Recurring-task and reminder engine of the todo backend: the todo,       *)
(* occurrence, reminder, notification and push-subscription tables, the    *)
(* service operations that write them and the scheduler's jobs.            *)
(*                                                                         *)
(* Instants are seconds on the UTC clock `now`; calendar dates are day     *)
(* numbers (instant \div SecondsPerDay).  Row ids are drawn from per-table *)
(* counters and never reused (the code draws nanoids).  Every service      *)
(* operation is one action: its queries, writes and commits together.      *)
(***************************************************************************)
EXTENDS Integers, Sequences, FiniteSets, TLC

VARIABLES
    now,            \* datetime.now(timezone.utc), in seconds
    todos,          \* table todos:              id -> row
    occurrences,    \* table todo_occurrences:   id -> row
    reminders,      \* table reminders:          id -> row
    notifications,  \* table notifications:      id -> row
    subscriptions,  \* table push_subscriptions: id -> row
    prefs,          \* table user_preferences:   user -> row
    nextId,         \* per-table id counters
    pushConfigured, \* PushService.is_configured: the three VAPID settings are present
    pushLog,        \* delivery attempts made by the latest dispatcher tick
    sentCount,      \* history: reminder id -> number of transitions into sent
    lastCall,       \* history: the latest operation and its response
    procs           \* top-ups in flight: process -> what it read and is about to insert

vars == <<now, todos, occurrences, reminders, notifications, subscriptions,
          prefs, nextId, pushConfigured, pushLog, sentCount, lastCall, procs>>

----------------------------------------------------------------------------
\* Bounds of the model

MaxTodos == 1
MaxReminders == 2
MaxNotifications == 2
MaxSubscriptions == 1
MaxClock == 1
CapTodos == 1
CapReminders == 6
CapNotifications == 1
MaxSeries == 1
MaxEdits == 1
MaxTouched == 2
MaxDays == 1
MaxOccurrences == 10
SweepReminders == 2
SweepDays == 45
MaxHours == 24
MaxDigests == 2
IsoTodos == 1
IsoReminders == 1
IsoNotifications == 1
RaceReminders == 2
RaceClock == 2
SchedReminders == 2
SchedClock == 2
MaxMissed == 2
SnoozeReminders == 2
SnoozeNotifications == 2
SnoozeClock == 3
PushReminders == 2
PushSubscriptions == 2
PushNotifications == 2

RegSubscriptions == 3
EditSeries == 1
EditTodos == 2
EditDays == 1
EditOccurrences == 45
FreqTouched == 2
FreqDays == 1
FreqOccurrences == 36
CountDays == 2
CountOccurrences == 40
EnumAhead == 10
EnumYear == 365
DueTodos == 2
DueDays == 1
DueDigests == 2
----------------------------------------------------------------------------
\* Program constants

MAX_REMINDERS_PER_TODO == 5
SecondsPerMinute == 60
SecondsPerDay == 86400
MinSnoozeMinutes == 5
RETENTION_DAYS == 30
MAX_INSTANCES == 1
HTTP_GONE == 410
COALESCE == TRUE
SecondsPerHour == 3600

Users == {"u1", "u2"}
ReminderStatus == {"pending", "sent", "snoozed", "cancelled"}
OccurrenceStatus == {"pending", "completed", "skipped"}
ActiveStatus == {"pending", "snoozed"}
Outcomes == {"ok", "gone", "fail"}

NoTime == -1     \* a NULL instant
NoDate == -1     \* a NULL date
NoOffset == 1    \* a NULL offset_minutes (offsets are <= 0)
Null == 0        \* a NULL foreign key
NoHour == -1     \* a NULL daily_digest_time
NoText == "null" \* a NULL title, description or priority
DefaultTitle == "task"

Day0 == 1                        \* the day the clock starts in
ClockStep == MinSnoozeMinutes * SecondsPerMinute

Today == now \div SecondsPerDay

----------------------------------------------------------------------------
\* Rows

NoDay == 0       \* a NULL day_of_month
NoRule == [freq |-> "NONE", interval |-> 1, byday |-> {}, bymonthday |-> NoDay,
           count |-> 0, until |-> NoDate]

Todo(u, due, recurring, rule, endDate, endCount) ==
    [user_id |-> u, title |-> DefaultTitle, description |-> NoText, priority |-> NoText,
     due_date |-> due, completed |-> FALSE,
     is_recurring |-> recurring, rrule |-> rule,
     recurrence_end_date |-> endDate, recurrence_count |-> endCount,
     occurrences_generated |-> 0]

Occurrence(t, u, d) ==
    [parent_todo_id |-> t, user_id |-> u, occurrence_date |-> d,
     status |-> "pending", completed_at |-> NoTime]

Subscription(u, e) ==
    [user_id |-> u, endpoint |-> e, last_used_at |-> NoTime]

Reminder(t, u, at, off) ==
    [todo_id |-> t, user_id |-> u, fire_at |-> at, offset_minutes |-> off,
     status |-> "pending", sent_at |-> NoTime, snoozed_until |-> NoTime]

\* A title is kept by its wording and the number written into it.
ReminderTitle == [text |-> "Reminder: {title}", count |-> 0]
Notification(u, type, t, r, at) ==
    [user_id |-> u, type |-> type, title |-> ReminderTitle, todo_id |-> t,
     reminder_id |-> r, read |-> FALSE, created_at |-> at]

\* timezone is an IANA name; daily_digest_time is kept by its hour, the only
\* part the digest reads.
UserPreferences(u) ==
    [user_id |-> u, timezone |-> "UTC", default_reminder_offset |-> NoOffset,
     daily_digest_enabled |-> FALSE, daily_digest_time |-> NoHour]

Attempt(r, s, o) == [reminder |-> r, subscription |-> s, outcome |-> o]

Call(op, id, res) == [op |-> op, id |-> id, result |-> res, args |-> << >>]

Procs == {"p1", "p2"}
Idle == [pc |-> "idle"]
Put(table, id, row) == [x \in DOMAIN table \cup {id} |-> IF x = id THEN row ELSE table[x]]
Drop(table, ids) == [x \in DOMAIN table \ ids |-> table[x]]

RemindersOf(rs, t) == {r \in DOMAIN rs : rs[r].todo_id = t}
OccurrencesOf(os, t) == {o \in DOMAIN os : os[o].parent_todo_id = t}
ActiveReminders(rs, t) == {r \in RemindersOf(rs, t) : rs[r].status \in ActiveStatus}

----------------------------------------------------------------------------
\* Recurrence evaluator (RecurrenceService).  Day 0 is Monday 2025-12-29; a
\* weekday is 0 (MO) .. 6 (SU).  A recurrence configuration is the request's
\* RecurrenceConfig, with 0 / {} / NoDate for a field that is not given.

NoCount == 0
WINDOW_DAYS == 30
DEFAULT_MAX_OCCURRENCES == 30
MIN_FUTURE == 5
LOOKAHEAD_DAYS == 365
JOB_WINDOW_DAYS == 30

Weekday(d) == d % 7
WeekStart(d) == d - Weekday(d)

\* datetime.date: the year, month and day of a day number (Gregorian
\* calendar), counted on from the first day of the month day 0 lies in.
EpochYear == 2025
EpochMonth == 12
EpochDay == 29
LeapYear(y) == y % 4 = 0 /\ (y % 100 # 0 \/ y % 400 = 0)
DaysInMonth(y, mo) ==
    IF mo = 2 THEN (IF LeapYear(y) THEN 29 ELSE 28)
    ELSE IF mo \in {4, 6, 9, 11} THEN 30 ELSE 31
RECURSIVE DateFrom(_, _, _)
DateFrom(y, mo, k) ==
    IF k < DaysInMonth(y, mo) THEN [year |-> y, month |-> mo, day |-> k + 1]
    ELSE DateFrom(IF mo = 12 THEN y + 1 ELSE y, IF mo = 12 THEN 1 ELSE mo + 1,
                  k - DaysInMonth(y, mo))
DateOf(d) == DateFrom(EpochYear, EpochMonth, d + EpochDay - 1)
MonthNumber(d) == DateOf(d).year * 12 + DateOf(d).month
\* date(y, mo, day) as a day number (within the first CalendarDays days).
CalendarDays == 400
DayNumber(y, mo, day) ==
    CHOOSE d \in 0..CalendarDays : DateOf(d) = [year |-> y, month |-> mo, day |-> day]

Config(freq, interval, days, endDate, endCount) ==
    [frequency |-> freq, interval |-> interval, days_of_week |-> days,
     day_of_month |-> NoDay, end_date |-> endDate, end_count |-> endCount]
OnDayOfMonth(config, day) == [config EXCEPT !.day_of_month = day]

NoRecurrence == Config("none", 1, {}, NoDate, NoCount)

\* Fault: config_to_rrule leaving out BYDAY.
ConfigToRRuleWithoutDays(config) ==
    [freq |-> IF config.frequency = "custom" THEN "WEEKLY"
              ELSE CASE config.frequency = "daily" -> "DAILY"
                     [] config.frequency = "weekly" -> "WEEKLY"
                     [] config.frequency = "monthly" -> "MONTHLY"
                     [] config.frequency = "yearly" -> "YEARLY",
     interval |-> config.interval,
     byday |-> {},
     bymonthday |-> config.day_of_month,
     count |-> config.end_count,
     until |-> config.end_date]

\* config_to_rrule: the parts of the RRULE string it writes.  INTERVAL is
\* written only when it is not 1; a part that is not written is read back by
\* the parser as its default.
ConfigToRRule(config) ==
    [freq |-> IF config.frequency = "custom"
              THEN (IF config.days_of_week # {} THEN "WEEKLY"
                    ELSE IF config.day_of_month # NoDay THEN "MONTHLY"
                    ELSE "DAILY")
              ELSE CASE config.frequency = "daily" -> "DAILY"
                     [] config.frequency = "weekly" -> "WEEKLY"
                     [] config.frequency = "monthly" -> "MONTHLY"
                     [] config.frequency = "yearly" -> "YEARLY",
     interval |-> IF config.interval # 1 THEN config.interval ELSE 1,
     byday |-> config.days_of_week,
     bymonthday |-> config.day_of_month,
     count |-> config.end_count,
     until |-> config.end_date]

\* Whether date d is generated by the rule anchored at dtstart (dateutil's
\* rrule: the periods of the frequency are counted from the anchor's, weeks
\* start on Monday, BYDAY and BYMONTHDAY filter the days, a rule with neither
\* repeats the anchor's weekday (WEEKLY), day of the month (MONTHLY) or month
\* and day (YEARLY), UNTIL is inclusive).
Periods(freq, dtstart, d) ==
    CASE freq = "DAILY" -> d - dtstart
      [] freq = "WEEKLY" -> (WeekStart(d) - WeekStart(dtstart)) \div 7
      [] freq = "MONTHLY" -> MonthNumber(d) - MonthNumber(dtstart)
      [] freq = "YEARLY" -> DateOf(d).year - DateOf(dtstart).year

RuleMatches(rule, dtstart, d) ==
    LET plain == rule.byday = {} /\ rule.bymonthday = NoDay
    IN /\ d >= dtstart
       /\ rule.until = NoDate \/ d <= rule.until
       /\ Periods(rule.freq, dtstart, d) % rule.interval = 0
       /\ rule.byday = {} \/ Weekday(d) \in rule.byday
       /\ rule.bymonthday = NoDay \/ DateOf(d).day = rule.bymonthday
       /\ (plain /\ rule.freq = "WEEKLY") => Weekday(d) = Weekday(dtstart)
       /\ (plain /\ rule.freq = "MONTHLY") => DateOf(d).day = DateOf(dtstart).day
       /\ (plain /\ rule.freq = "YEARLY") =>
             /\ DateOf(d).month = DateOf(dtstart).month
             /\ DateOf(d).day = DateOf(dtstart).day

RECURSIVE SortedSeq(_)
SortedSeq(S) ==
    IF S = {} THEN << >>
    ELSE LET m == CHOOSE x \in S : \A y \in S : x <= y
         IN <<m>> \o SortedSeq(S \ {m})

Take(seq, n) == SubSeq(seq, 1, IF Len(seq) < n THEN Len(seq) ELSE n)
Range(seq) == {seq[i] : i \in 1..Len(seq)}

\* The dates the rule's iterator yields up to `last`, in order; COUNT cuts the
\* iteration after that many dates, counted from the anchor.
RuleDates(rule, dtstart, last) ==
    LET days == [i \in 1..(last - dtstart + 1) |-> dtstart + i - 1]
        all == SelectSeq(days, LAMBDA d : RuleMatches(rule, dtstart, d))
    IN IF rule.count # NoCount THEN Take(all, rule.count) ELSE all

\* Fault: generate_occurrences keeping the dates before window_start.
GenerateOccurrencesFromAnchor(rule, start_date, window_start, window_end, max_occurrences) ==
    LET from == IF window_start = NoDate THEN start_date ELSE window_start
        to == IF window_end = NoDate THEN from + WINDOW_DAYS ELSE window_end
    IN Take(RuleDates(rule, start_date, to), max_occurrences)

\* generate_occurrences: a window start not given is start_date, a window end
\* not given is WINDOW_DAYS after the window start; iterate the rule, stop at
\* the first date after window_end, keep the dates >= window_start, stop once
\* the list has max_occurrences entries (looked at after each date kept).
GenerateOccurrences(rule, start_date, window_start, window_end, max_occurrences) ==
    LET from == IF window_start = NoDate THEN start_date ELSE window_start
        to == IF window_end = NoDate THEN from + WINDOW_DAYS ELSE window_end
        it == RuleDates(rule, start_date, to)
    IN Take(SelectSeq(it, LAMBDA d : d >= from),
            IF max_occurrences < 1 THEN 1 ELSE max_occurrences)

\* get_next_occurrence: an after_date not given is today; the first date
\* generate_occurrences returns for the window [after_date, after_date + 365
\* days] with a cap of one, or none when that list is empty.
GetNextOccurrence(rule, start_date, after_date, today) ==
    LET after == IF after_date = NoDate THEN today ELSE after_date
        found == GenerateOccurrences(rule, start_date, after, after + LOOKAHEAD_DAYS, 1)
    IN IF found # << >> THEN found[1] ELSE NoDate

DefaultWindowEnd(window_start) == window_start + WINDOW_DAYS

----------------------------------------------------------------------------
\* Initial state: empty tables, the clock at midnight of Day0.

Init ==
    /\ now = Day0 * SecondsPerDay
    /\ todos = << >>
    /\ occurrences = << >>
    /\ reminders = << >>
    /\ notifications = << >>
    /\ subscriptions = << >>
    /\ prefs = [u \in Users |-> UserPreferences(u)]
    /\ nextId = [todo |-> 1, occurrence |-> 1, reminder |-> 1,
                 notification |-> 1, subscription |-> 1]
    /\ pushConfigured = TRUE
    /\ pushLog = << >>
    /\ sentCount = << >>
    /\ lastCall = Call("init", Null, "ok")
    /\ procs = [p \in Procs |-> Idle]

----------------------------------------------------------------------------
\* Occurrence maintainer

\* The rows _generate_occurrences adds for `dates` (in order), numbered from nid.
NewOccurrences(t, u, dates, nid) ==
    [i \in nid..(nid + Len(dates) - 1) |-> Occurrence(t, u, dates[i - nid + 1])]

Merge(table, rows) ==
    [x \in DOMAIN table \cup DOMAIN rows |-> IF x \in DOMAIN rows THEN rows[x] ELSE table[x]]

ExistingDates(os, t) == {os[o].occurrence_date : o \in OccurrencesOf(os, t)}

\* Fault: _generate_occurrences without the check against the existing dates.
TopUpIgnoringExisting(ts, os, nid, u, t, rule, start_date, max_occurrences) ==
    LET dates == GenerateOccurrences(rule, start_date, start_date,
                                     DefaultWindowEnd(start_date), max_occurrences)
        created == Len(dates)
    IN [todos |-> IF created > 0 /\ t \in DOMAIN ts
                  THEN [ts EXCEPT ![t].occurrences_generated = @ + created]
                  ELSE ts,
        occurrences |-> Merge(os, NewOccurrences(t, u, dates, nid)),
        next |-> nid + created,
        created |-> created]

\* TodoService._generate_occurrences: the dates of the rule from start_date
\* (anchor and window start both) that have no row yet get a pending row; the
\* head's occurrences_generated grows by the number created.
TopUp(ts, os, nid, u, t, rule, start_date, max_occurrences) ==
    LET dates == GenerateOccurrences(rule, start_date, start_date,
                                     DefaultWindowEnd(start_date), max_occurrences)
        existing_dates == ExistingDates(os, t)
        fresh == SelectSeq(dates, LAMBDA d : d \notin existing_dates)
        created == Len(fresh)
    IN [todos |-> IF created > 0 /\ t \in DOMAIN ts
                  THEN [ts EXCEPT ![t].occurrences_generated = @ + created]
                  ELSE ts,
        occurrences |-> Merge(os, NewOccurrences(t, u, fresh, nid)),
        next |-> nid + created,
        created |-> created]

\* The number of times in a row, this call included, that the operation `op`
\* has been called on `id` with the arguments `args` (counted up to 2).
Repeat(op, id, args) ==
    IF lastCall.op = op /\ lastCall.id = id /\ Len(lastCall.args) = Len(args) + 1
       /\ SubSeq(lastCall.args, 1, Len(args)) = args
    THEN 2 ELSE 1

\* _generate_occurrences(user, todo_id, todo.rrule, start_date, max_occurrences)
\* called on a series.
GenerateOccurrencesCall(u, t, start_date, max_occurrences) ==
    /\ t \in DOMAIN todos
    /\ todos[t].user_id = u
    /\ todos[t].is_recurring
    /\ LET done == TopUp(todos, occurrences, nextId.occurrence, u, t, todos[t].rrule,
                         start_date, max_occurrences)
       IN /\ todos' = done.todos
          /\ occurrences' = done.occurrences
          /\ nextId' = [nextId EXCEPT !.occurrence = done.next]
          /\ lastCall' = [Call("top_up", t, IF done.created > 0 THEN "created" ELSE "unchanged")
                            EXCEPT !.args = <<start_date, max_occurrences,
                                             Repeat("top_up", t, <<start_date, max_occurrences>>)>>]
    /\ UNCHANGED <<now, reminders, notifications, subscriptions, prefs,
                   pushConfigured, procs, pushLog, sentCount>>

\* database.get_session: a generator function (def ... yield session), the
\* dependency the routers get their session from.
SessionProvider == "generator"

\* `async for session in get_session():`, the way each job of scheduler.py
\* opens its session.  The statement asks its operand for __aiter__, which an
\* asynchronous generator has and a generator has not: on a generator it
\* raises TypeError before the body is entered.
AsyncForRaises(provider) == provider # "async_generator"

\* `except Exception` of a job: the error is logged and the job returns, no
\* table touched.
JobFails(job) ==
    /\ lastCall' = [Call(job, Null, "type_error")
                      EXCEPT !.args = <<Today, Repeat(job, Null, <<Today>>)>>]
    /\ UNCHANGED <<now, todos, occurrences, reminders, notifications, subscriptions,
                   prefs, nextId, pushConfigured, pushLog, sentCount>>

\* The rows generate_occurrences_job adds for one todo: the dates of its rule
\* anchored at due_date, from today on, that have no row yet.
JobDates(ts, os, t, today) ==
    LET dates == GenerateOccurrences(ts[t].rrule, ts[t].due_date, today,
                                     DefaultWindowEnd(today), JOB_WINDOW_DAYS)
        existing_dates == ExistingDates(os, t)
    IN SelectSeq(dates, LAMBDA d : d \notin existing_dates)

\* ... and for every recurring todo with a due date, one after the other.
RECURSIVE JobInserts(_, _, _, _, _)
JobInserts(ts, os, nid, ids, today) ==
    IF ids = << >> THEN [occurrences |-> os, next |-> nid]
    ELSE LET t == Head(ids)
             fresh == JobDates(ts, os, t, today)
         IN JobInserts(ts, Merge(os, NewOccurrences(t, ts[t].user_id, fresh, nid)),
                       nid + Len(fresh), Tail(ids), today)

RecurringTodos(ts) ==
    SortedSeq({t \in DOMAIN ts : ts[t].is_recurring /\ ts[t].due_date # NoDate})

\* The body of generate_occurrences_job: the daily top-up of every series.
TopUpEverySeries ==
    LET done == JobInserts(todos, occurrences, nextId.occurrence, RecurringTodos(todos), Today)
        created == done.next - nextId.occurrence
    IN /\ occurrences' = done.occurrences
       /\ nextId' = [nextId EXCEPT !.occurrence = done.next]
       /\ lastCall' = [Call("generate_occurrences_job", Null,
                             IF created > 0 THEN "created" ELSE "unchanged")
                         EXCEPT !.args = <<Today, Repeat("generate_occurrences_job", Null, <<Today>>)>>]
       /\ UNCHANGED <<now, todos, reminders, notifications, subscriptions, prefs,
                      pushConfigured, pushLog, sentCount>>

\* generate_occurrences_job: the body runs inside the `async for`.
GenerateOccurrencesJob ==
    /\ IF AsyncForRaises(SessionProvider)
       THEN JobFails("generate_occurrences_job")
       ELSE TopUpEverySeries
    /\ UNCHANGED procs

\* Fault: update_occurrence_status writing to every occurrence of the series.
UpdateSeriesStatus(os, u, o, new_status, at) ==
    IF o \notin DOMAIN os \/ os[o].user_id # u THEN os
    ELSE [x \in DOMAIN os |->
            IF os[x].parent_todo_id = os[o].parent_todo_id
            THEN [os[x] EXCEPT !.status = new_status]
            ELSE os[x]]

\* update_occurrence_status: the owner's occurrence takes the status asked
\* for, whatever status it has; completed stamps completed_at, pending clears it.
UpdateOccurrenceStatus(os, u, o, new_status, at) ==
    IF o \notin DOMAIN os \/ os[o].user_id # u THEN os
    ELSE [os EXCEPT ![o].status = new_status,
                    ![o].completed_at = IF new_status = "completed" THEN at
                                        ELSE IF new_status = "pending" THEN NoTime
                                        ELSE @]

MaxOf(S) == CHOOSE x \in S : \A y \in S : y <= x
MinOf(S) == CHOOSE x \in S : \A y \in S : x <= y

\* _ensure_future_occurrences: with fewer than MIN_FUTURE pending occurrences
\* from today on, top up from the day after the latest occurrence, at most
\* 2 * MIN_FUTURE dates.
EnsureFutureOccurrences(ts, os, nid, u, t, today) ==
    LET none == [todos |-> ts, occurrences |-> os, next |-> nid, created |-> 0]
        pending == {o \in OccurrencesOf(os, t) :
                      /\ os[o].user_id = u
                      /\ os[o].status = "pending"
                      /\ os[o].occurrence_date >= today}
        dates == ExistingDates(os, t)
        start_from == IF dates # {} THEN MaxOf(dates) ELSE ts[t].due_date
    IN IF t \notin DOMAIN ts \/ ts[t].user_id # u \/ ~ts[t].is_recurring
          \/ ts[t].rrule = NoRule THEN none
       ELSE IF Cardinality(pending) >= MIN_FUTURE THEN none
       ELSE IF start_from = NoDate THEN none
       ELSE TopUp(ts, os, nid, u, t, ts[t].rrule, start_from + 1, MIN_FUTURE * 2)

\* PATCH /occurrences/{id} with a status
PatchOccurrence(u, o, new_status) ==
    /\ occurrences' = UpdateOccurrenceStatus(occurrences, u, o, new_status, now)
    /\ lastCall' = Call("update_occurrence", o,
                        IF o \in DOMAIN occurrences /\ occurrences[o].user_id = u
                        THEN "ok" ELSE "not_found")
    /\ UNCHANGED <<now, todos, reminders, notifications, subscriptions, prefs, nextId,
                   pushConfigured, procs, pushLog, sentCount>>

\* complete_occurrence / skip_occurrence: set the status, then keep the
\* window of future occurrences full.
SetAndEnsure(op, u, o, new_status) ==
    /\ UNCHANGED <<now, reminders, notifications, subscriptions, prefs,
                   pushConfigured, procs, pushLog, sentCount>>
    /\ IF o \notin DOMAIN occurrences \/ occurrences[o].user_id # u
       THEN /\ lastCall' = Call(op, o, "not_found")
            /\ UNCHANGED <<todos, occurrences, nextId>>
       ELSE LET set == UpdateOccurrenceStatus(occurrences, u, o, new_status, now)
                done == EnsureFutureOccurrences(todos, set, nextId.occurrence, u,
                                                occurrences[o].parent_todo_id, Today)
            IN /\ todos' = done.todos
               /\ occurrences' = done.occurrences
               /\ nextId' = [nextId EXCEPT !.occurrence = done.next]
               /\ lastCall' = Call(op, o, "ok")

CompleteOccurrence(u, o) == SetAndEnsure("complete_occurrence", u, o, "completed")
SkipOccurrence(u, o) == SetAndEnsure("skip_occurrence", u, o, "skipped")

\* get_current_occurrence: today's occurrence, in whatever status; failing
\* that, the earliest pending one after today; failing that, none.
GetCurrentOccurrence(os, u, t, today) ==
    LET mine == {o \in OccurrencesOf(os, t) : os[o].user_id = u}
        todays == {o \in mine : os[o].occurrence_date = today}
        later == {o \in mine : os[o].status = "pending" /\ os[o].occurrence_date > today}
    IN IF todays # {} THEN MinOf(todays)
       ELSE IF later # {}
       THEN CHOOSE o \in later : \A q \in later : os[o].occurrence_date <= os[q].occurrence_date
       ELSE Null

\* A TodoUpdate is the record of the fields the request carries (title,
\* description, priority, due_date); a field sent as null carries NoText or
\* NoDate, a field not sent is not in the record.
NoPatch == << >>
\* Fault: the merge of a this_only edit taking the head's value whatever the
\* patch carries.
MergedFromHead(data, f, none, fallback) == fallback

Merged(data, f, none, fallback) ==
    IF f \in DOMAIN data /\ data[f] # none THEN data[f] ELSE fallback

\* update_todo's loop over model_dump(exclude_unset=True): every field the
\* request carries is assigned, null included.
SetSentFields(row, data) ==
    [f \in DOMAIN row |-> IF f \in DOMAIN data THEN data[f] ELSE row[f]]

\* update_todo(user, todo_id, data, edit_scope).  this_only on a series: a new
\* one-off todo is written from the patch and the head, the current
\* occurrence is skipped and the window is kept full.  Otherwise the todo
\* itself is updated.
PatchTodo(u, t, data, edit_scope) ==
    /\ UNCHANGED <<now, reminders, notifications, subscriptions, prefs,
                   pushConfigured, procs, pushLog, sentCount>>
    /\ IF t \notin DOMAIN todos \/ todos[t].user_id # u
       THEN /\ lastCall' = Call("update_todo", t, "not_found")
            /\ UNCHANGED <<todos, occurrences, nextId>>
       ELSE IF todos[t].is_recurring /\ edit_scope = "this_only"
       THEN LET cur == GetCurrentOccurrence(occurrences, u, t, Today)
                new_due == Merged(data, "due_date", NoDate,
                                  IF cur # Null THEN occurrences[cur].occurrence_date
                                  ELSE todos[t].due_date)
                new_todo == [Todo(u, new_due, FALSE, NoRule, NoDate, NoCount) EXCEPT
                               !.title = Merged(data, "title", NoText, todos[t].title),
                               !.description = Merged(data, "description", NoText,
                                                      todos[t].description),
                               !.priority = Merged(data, "priority", NoText, todos[t].priority)]
                new_id == nextId.todo
                added == Put(todos, new_id, new_todo)
                done == IF cur # Null
                        THEN EnsureFutureOccurrences(
                                 added, [occurrences EXCEPT ![cur].status = "skipped"],
                                 nextId.occurrence, u, t, Today)
                        ELSE [todos |-> added, occurrences |-> occurrences,
                              next |-> nextId.occurrence, created |-> 0]
            IN /\ todos' = done.todos
               /\ occurrences' = done.occurrences
               /\ nextId' = [nextId EXCEPT !.todo = new_id + 1, !.occurrence = done.next]
               /\ lastCall' = [Call("update_todo", t, "ok") EXCEPT !.args = <<edit_scope>>]
       ELSE /\ todos' = [todos EXCEPT ![t] = SetSentFields(@, data)]
            /\ UNCHANGED <<occurrences, nextId>>
            /\ lastCall' = [Call("update_todo", t, "ok") EXCEPT !.args = <<edit_scope>>]

\* ... with a patch that carries a due date, or nothing.
UpdateTodo(u, t, due, edit_scope) ==
    PatchTodo(u, t, IF due = NoDate THEN NoPatch ELSE [due_date |-> due], edit_scope)

\* Fault: stop_recurring deleting every occurrence dated after today, whatever
\* its status and whatever keep_pending says.
StopSeriesDroppingAll(ts, os, u, t, keep_pending, today) ==
    IF t \notin DOMAIN ts \/ ts[t].user_id # u \/ ~ts[t].is_recurring
    THEN [todos |-> ts, occurrences |-> os]
    ELSE [todos |-> [ts EXCEPT ![t].is_recurring = FALSE,
                               ![t].rrule = NoRule,
                               ![t].recurrence_end_date = today],
          occurrences |-> Drop(os, {o \in OccurrencesOf(os, t) : os[o].occurrence_date > today})]

\* Fault: stop_recurring that writes the end date and drops the pending
\* occurrences but leaves is_recurring and the rule in place.
StopSeriesKeepingRule(ts, os, u, t, keep_pending, today) ==
    IF t \notin DOMAIN ts \/ ts[t].user_id # u \/ ~ts[t].is_recurring
    THEN [todos |-> ts, occurrences |-> os]
    ELSE [todos |-> [ts EXCEPT ![t].recurrence_end_date = today],
          occurrences |->
            IF keep_pending THEN os
            ELSE Drop(os, {o \in OccurrencesOf(os, t) :
                             /\ os[o].user_id = u
                             /\ os[o].status = "pending"
                             /\ os[o].occurrence_date > today})]

\* TodoService.stop_recurring: a todo that is not recurring is returned as it
\* is; a series loses its rule, ends today and, unless keep_pending, loses
\* its pending occurrences dated after today.
StopSeries(ts, os, u, t, keep_pending, today) ==
    IF t \notin DOMAIN ts \/ ts[t].user_id # u \/ ~ts[t].is_recurring
    THEN [todos |-> ts, occurrences |-> os]
    ELSE [todos |-> [ts EXCEPT ![t].is_recurring = FALSE,
                               ![t].rrule = NoRule,
                               ![t].recurrence_end_date = today],
          occurrences |->
            IF keep_pending THEN os
            ELSE Drop(os, {o \in OccurrencesOf(os, t) :
                             /\ os[o].user_id = u
                             /\ os[o].status = "pending"
                             /\ os[o].occurrence_date > today})]

\* Fault: the endpoint and the service without their is_recurring checks: a
\* stopped series is stopped again.
StopRecurringAgain(u, t, keep_pending) ==
    /\ UNCHANGED <<now, reminders, notifications, subscriptions, prefs, nextId,
                   pushConfigured, procs, pushLog, sentCount>>
    /\ IF t \notin DOMAIN todos \/ todos[t].user_id # u
       THEN /\ lastCall' = [Call("stop_recurring", t, "not_found") EXCEPT !.args = <<keep_pending>>]
            /\ UNCHANGED <<todos, occurrences>>
       ELSE /\ todos' = [todos EXCEPT ![t].is_recurring = FALSE,
                                      ![t].rrule = NoRule,
                                      ![t].recurrence_end_date = Today]
            /\ occurrences' =
                 IF keep_pending THEN occurrences
                 ELSE Drop(occurrences,
                           {o \in OccurrencesOf(occurrences, t) :
                              /\ occurrences[o].status = "pending"
                              /\ occurrences[o].occurrence_date > Today})
            /\ lastCall' = [Call("stop_recurring", t, "ok") EXCEPT !.args = <<keep_pending>>]

\* POST /todos/{id}/stop-recurring: 404 for a todo that is not the caller's,
\* 400 for one that is not recurring, else the service call.
StopRecurring(u, t, keep_pending) ==
    /\ UNCHANGED <<now, reminders, notifications, subscriptions, prefs, nextId,
                   pushConfigured, procs, pushLog, sentCount>>
    /\ IF t \notin DOMAIN todos \/ todos[t].user_id # u
       THEN /\ lastCall' = [Call("stop_recurring", t, "not_found") EXCEPT !.args = <<keep_pending>>]
            /\ UNCHANGED <<todos, occurrences>>
       ELSE IF ~todos[t].is_recurring
       THEN /\ lastCall' = [Call("stop_recurring", t, "not_recurring")
                              EXCEPT !.args = <<keep_pending>>]
            /\ UNCHANGED <<todos, occurrences>>
       ELSE LET done == StopSeries(todos, occurrences, u, t, keep_pending, Today)
            IN /\ todos' = done.todos
               /\ occurrences' = done.occurrences
               /\ lastCall' = [Call("stop_recurring", t, "ok") EXCEPT !.args = <<keep_pending>>]

----------------------------------------------------------------------------
\* Series editor: create_todo, delete_todo

\* TodoService._auto_apply_default_reminder: the instant the default reminder
\* fires, end of the due day plus the (negative) offset.
DefaultFireAt(due, offset) ==
    due * SecondsPerDay + (SecondsPerDay - 1) + offset * SecondsPerMinute

\* Fault: create_todo without the due date check; the todo is written with
\* its rule, and no occurrence is seeded when there is no due date.
CreateTodoWithoutDueDate(u, due, config) ==
    LET t == nextId.todo
        recurring == config # NoRecurrence
        rule == IF recurring THEN ConfigToRRule(config) ELSE NoRule
        row == Todo(u, due, recurring, rule,
                    IF recurring THEN config.end_date ELSE NoDate,
                    IF recurring THEN config.end_count ELSE NoCount)
        seeded == IF recurring /\ due # NoDate
                  THEN TopUp(Put(todos, t, row), occurrences, nextId.occurrence,
                             u, t, rule, due, DEFAULT_MAX_OCCURRENCES)
                  ELSE [todos |-> Put(todos, t, row), occurrences |-> occurrences,
                        next |-> nextId.occurrence, created |-> 0]
    IN /\ todos' = seeded.todos
       /\ occurrences' = seeded.occurrences
       /\ nextId' = [nextId EXCEPT !.todo = t + 1, !.occurrence = seeded.next]
       /\ lastCall' = Call("create_todo", t, "ok")
       /\ UNCHANGED <<now, reminders, sentCount, notifications, subscriptions, prefs,
                      pushConfigured, procs, pushLog>>

\* create_todo(user, data): rejects a recurrence without a due date; writes the
\* todo, seeds the occurrences of a recurring one, and adds the user's default
\* reminder when an offset is set and its fire time is still ahead.
CreateTodo(u, due, config) ==
    IF config # NoRecurrence /\ due = NoDate
    THEN /\ lastCall' = Call("create_todo", Null, "validation_error")
         /\ UNCHANGED <<now, todos, occurrences, reminders, notifications,
                        subscriptions, prefs, nextId, pushConfigured, procs, pushLog, sentCount>>
    ELSE LET t == nextId.todo
             recurring == config # NoRecurrence
             rule == IF recurring THEN ConfigToRRule(config) ELSE NoRule
             row == Todo(u, due, recurring, rule,
                         IF recurring THEN config.end_date ELSE NoDate,
                         IF recurring THEN config.end_count ELSE NoCount)
             seeded == IF recurring
                       THEN TopUp(Put(todos, t, row), occurrences, nextId.occurrence,
                                  u, t, rule, due, DEFAULT_MAX_OCCURRENCES)
                       ELSE [todos |-> Put(todos, t, row), occurrences |-> occurrences,
                             next |-> nextId.occurrence, created |-> 0]
             offset == prefs[u].default_reminder_offset
             auto == /\ due # NoDate
                     /\ offset # NoOffset
                     /\ DefaultFireAt(due, offset) > now
             r == nextId.reminder
         IN /\ todos' = seeded.todos
            /\ occurrences' = seeded.occurrences
            /\ reminders' = IF auto
                             THEN Put(reminders, r, Reminder(t, u, DefaultFireAt(due, offset), offset))
                             ELSE reminders
            /\ sentCount' = IF auto THEN Put(sentCount, r, 0) ELSE sentCount
            /\ nextId' = [nextId EXCEPT !.todo = t + 1,
                                        !.occurrence = seeded.next,
                                        !.reminder = IF auto THEN r + 1 ELSE r]
            /\ lastCall' = Call("create_todo", t, "ok")
            /\ UNCHANGED <<now, notifications, subscriptions, prefs, pushConfigured, procs, pushLog>>

\* FOREIGN KEY ... ON DELETE SET NULL of notifications.todo_id / reminder_id.
DetachTodo(ns, t) ==
    [n \in DOMAIN ns |-> IF ns[n].todo_id = t THEN [ns[n] EXCEPT !.todo_id = Null] ELSE ns[n]]
DetachReminder(ns, r) ==
    [n \in DOMAIN ns |-> IF ns[n].reminder_id = r THEN [ns[n] EXCEPT !.reminder_id = Null] ELSE ns[n]]

\* Todo.occurrences / Todo.reminders are relationships without a delete
\* cascade: on session.delete(todo) the unit of work sets the foreign key of
\* every child row to NULL, which the NOT NULL columns parent_todo_id and
\* todo_id refuse, so the commit raises IntegrityError and nothing is written.
DeleteBlocked(t) == RemindersOf(reminders, t) # {} \/ OccurrencesOf(occurrences, t) # {}

\* delete_todo(user, todo_id)
DeleteTodo(u, t) ==
    /\ UNCHANGED <<now, occurrences, reminders, subscriptions, prefs, nextId,
                   pushConfigured, procs, pushLog, sentCount>>
    /\ IF t \notin DOMAIN todos \/ todos[t].user_id # u
       THEN /\ lastCall' = Call("delete_todo", t, "not_found")
            /\ UNCHANGED <<todos, notifications>>
       ELSE IF DeleteBlocked(t)
       THEN /\ lastCall' = Call("delete_todo", t, "integrity_error")
            /\ UNCHANGED <<todos, notifications>>
       ELSE /\ todos' = Drop(todos, {t})
            /\ notifications' = DetachTodo(notifications, t)
            /\ lastCall' = Call("delete_todo", t, "ok")

----------------------------------------------------------------------------
\* Reminder service

\* Fault: create_reminder without the count of the active reminders.
CreateReminderUncapped(u, t, fire_at, offset) ==
    /\ UNCHANGED <<now, todos, occurrences, notifications, subscriptions, prefs,
                   pushConfigured, procs, pushLog>>
    /\ IF t \notin DOMAIN todos \/ todos[t].user_id # u
       THEN /\ lastCall' = Call("create_reminder", t, "not_found")
            /\ UNCHANGED <<reminders, nextId, sentCount>>
       ELSE IF offset # NoOffset /\ todos[t].due_date = NoDate
       THEN /\ lastCall' = Call("create_reminder", t, "validation_error")
            /\ UNCHANGED <<reminders, nextId, sentCount>>
       ELSE LET r == nextId.reminder
                at == IF offset # NoOffset
                      THEN todos[t].due_date * SecondsPerDay + offset * SecondsPerMinute
                      ELSE fire_at
            IN /\ reminders' = Put(reminders, r, Reminder(t, u, at, offset))
               /\ sentCount' = Put(sentCount, r, 0)
               /\ nextId' = [nextId EXCEPT !.reminder = r + 1]
               /\ lastCall' = Call("create_reminder", t, "ok")

\* create_reminder (router and service): 404 unless the caller owns the todo;
\* ValueError (400) at MAX_REMINDERS_PER_TODO active reminders, or for an
\* offset on a todo without due date; the fire time of an offset reminder is
\* midnight of the due date plus the offset.
CreateReminder(u, t, fire_at, offset) ==
    /\ UNCHANGED <<now, todos, occurrences, notifications, subscriptions, prefs,
                   pushConfigured, procs, pushLog>>
    /\ IF t \notin DOMAIN todos \/ todos[t].user_id # u
       THEN /\ lastCall' = Call("create_reminder", t, "not_found")
            /\ UNCHANGED <<reminders, nextId, sentCount>>
       ELSE IF \/ Cardinality(ActiveReminders(reminders, t)) >= MAX_REMINDERS_PER_TODO
               \/ (offset # NoOffset /\ todos[t].due_date = NoDate)
       THEN /\ lastCall' = Call("create_reminder", t, "validation_error")
            /\ UNCHANGED <<reminders, nextId, sentCount>>
       ELSE LET r == nextId.reminder
                at == IF offset # NoOffset
                      THEN todos[t].due_date * SecondsPerDay + offset * SecondsPerMinute
                      ELSE fire_at
            IN /\ reminders' = Put(reminders, r, Reminder(t, u, at, offset))
               /\ sentCount' = Put(sentCount, r, 0)
               /\ nextId' = [nextId EXCEPT !.reminder = r + 1]
               /\ lastCall' = Call("create_reminder", t, "ok")

\* Fault: a snooze that records snoozed_until and leaves fire_at as it was.
SnoozeKeepingFireAt(u, r, minutes) ==
    /\ UNCHANGED <<now, todos, occurrences, notifications, subscriptions, prefs,
                   nextId, pushConfigured, procs, pushLog, sentCount>>
    /\ IF r \notin DOMAIN reminders \/ reminders[r].user_id # u
       THEN /\ lastCall' = Call("snooze_reminder", r, "not_found")
            /\ UNCHANGED reminders
       ELSE /\ reminders' = [reminders EXCEPT
                                ![r].status = "snoozed",
                                ![r].snoozed_until = now + minutes * SecondsPerMinute]
            /\ lastCall' = Call("snooze_reminder", r, "ok")

\* snooze_reminder: whatever the reminder's status, it becomes snoozed and
\* fires again at now + snooze_minutes.
SnoozeReminder(u, r, minutes) ==
    /\ UNCHANGED <<now, todos, occurrences, notifications, subscriptions, prefs,
                   nextId, pushConfigured, procs, pushLog, sentCount>>
    /\ IF r \notin DOMAIN reminders \/ reminders[r].user_id # u
       THEN /\ lastCall' = Call("snooze_reminder", r, "not_found")
            /\ UNCHANGED reminders
       ELSE /\ reminders' = [reminders EXCEPT
                                ![r].status = "snoozed",
                                ![r].snoozed_until = now + minutes * SecondsPerMinute,
                                ![r].fire_at = now + minutes * SecondsPerMinute]
            /\ lastCall' = Call("snooze_reminder", r, "ok")

\* delete_reminder
DeleteReminder(u, r) ==
    /\ UNCHANGED <<now, todos, occurrences, subscriptions, prefs, nextId,
                   pushConfigured, procs, pushLog>>
    /\ IF r \notin DOMAIN reminders \/ reminders[r].user_id # u
       THEN /\ lastCall' = Call("delete_reminder", r, "not_found")
            /\ UNCHANGED <<reminders, notifications, sentCount>>
       ELSE /\ reminders' = Drop(reminders, {r})
            /\ notifications' = DetachReminder(notifications, r)
            /\ sentCount' = Drop(sentCount, {r})
            /\ lastCall' = Call("delete_reminder", r, "ok")

\* Fault: cancel_todo_reminders without the filter on status.
CancelEveryTodoReminder(t) ==
    /\ reminders' = [r \in DOMAIN reminders |->
                        IF r \in RemindersOf(reminders, t)
                        THEN [reminders[r] EXCEPT !.status = "cancelled"]
                        ELSE reminders[r]]
    /\ lastCall' = Call("cancel_todo_reminders", t, "ok")
    /\ UNCHANGED <<now, todos, occurrences, notifications, subscriptions, prefs,
                   nextId, pushConfigured, procs, pushLog, sentCount>>

\* cancel_todo_reminders: every active reminder of the todo becomes cancelled.
CancelTodoReminders(t) ==
    /\ reminders' = [r \in DOMAIN reminders |->
                        IF r \in ActiveReminders(reminders, t)
                        THEN [reminders[r] EXCEPT !.status = "cancelled"]
                        ELSE reminders[r]]
    /\ lastCall' = Call("cancel_todo_reminders", t, "ok")
    /\ UNCHANGED <<now, todos, occurrences, notifications, subscriptions, prefs,
                   nextId, pushConfigured, procs, pushLog, sentCount>>

----------------------------------------------------------------------------
\* Push sender

Endpoints == {"e1", "e2"}

SubscriptionsOf(subs, u) == {s \in DOMAIN subs : subs[s].user_id = u}

\* Fault: register_subscription without the lookup by endpoint.
RegisterAlwaysInserts(u, e) ==
    LET s == nextId.subscription
    IN /\ subscriptions' = Put(subscriptions, s, Subscription(u, e))
       /\ nextId' = [nextId EXCEPT !.subscription = s + 1]
       /\ lastCall' = Call("register_subscription", s, "ok")
       /\ UNCHANGED <<now, todos, occurrences, reminders, notifications, prefs,
                      pushConfigured, procs, pushLog, sentCount>>

\* register_subscription: an endpoint already registered keeps its row and is
\* rebound to the caller; otherwise a new row is written.
RegisterSubscription(u, e) ==
    /\ UNCHANGED <<now, todos, occurrences, reminders, notifications, prefs,
                   pushConfigured, procs, pushLog, sentCount>>
    /\ IF \E s \in DOMAIN subscriptions : subscriptions[s].endpoint = e
       THEN LET s == CHOOSE x \in DOMAIN subscriptions : subscriptions[x].endpoint = e
            IN /\ subscriptions' = [subscriptions EXCEPT ![s].user_id = u]
               /\ lastCall' = Call("register_subscription", s, "existing")
               /\ UNCHANGED nextId
       ELSE LET s == nextId.subscription
            IN /\ subscriptions' = Put(subscriptions, s, Subscription(u, e))
               /\ nextId' = [nextId EXCEPT !.subscription = s + 1]
               /\ lastCall' = Call("register_subscription", s, "ok")

\* unregister_subscription: the row with this id and this owner is deleted.
UnregisterSubscription(u, s) ==
    /\ UNCHANGED <<now, todos, occurrences, reminders, notifications, prefs, nextId,
                   pushConfigured, procs, pushLog, sentCount>>
    /\ IF s \in DOMAIN subscriptions /\ subscriptions[s].user_id = u
       THEN /\ subscriptions' = Drop(subscriptions, {s})
            /\ lastCall' = Call("unregister_subscription", s, "ok")
       ELSE /\ UNCHANGED subscriptions
            /\ lastCall' = Call("unregister_subscription", s, "not_found")

\* The reply of the push service behind each delivery outcome.
StatusCode(o) == CASE o = "ok" -> 201 [] o = "gone" -> HTTP_GONE [] OTHER -> 500

\* bool(e.response): the response of a WebPushException is a requests.Response,
\* which is true when its status code is below 400 (__bool__ returns ok).
Truthy(code) == code < 400

\* send_push_notification, by the delivery outcome o: without VAPID keys
\* nothing is attempted; a delivered message stamps last_used_at; a failure
\* removes the subscription `if e.response and e.response.status_code == 410`
\* and leaves it alone otherwise.  No exception leaves the function.
SendPushNotification(subs, s, o, configured, at) ==
    IF ~configured THEN subs
    ELSE IF o = "ok" THEN [subs EXCEPT ![s].last_used_at = at]
    ELSE IF Truthy(StatusCode(o)) /\ StatusCode(o) = HTTP_GONE THEN Drop(subs, {s})
    ELSE subs

\* Fault: the loop of send_to_user left at the first send that fails.
RECURSIVE FanOutUntilFailure(_, _, _, _, _, _, _)
FanOutUntilFailure(subs, log, ids, r, out, configured, at) ==
    IF ids = << >> THEN [subscriptions |-> subs, log |-> log]
    ELSE LET s == Head(ids)
             done == SendPushNotification(subs, s, out[s], configured, at)
             tried == IF configured THEN Append(log, Attempt(r, s, out[s])) ELSE log
         IN IF configured /\ out[s] # "ok"
            THEN [subscriptions |-> done, log |-> tried]
            ELSE FanOutUntilFailure(done, tried, Tail(ids), r, out, configured, at)

\* The loop of send_to_user over the subscriptions read when the call starts:
\* one send_push_notification each, whatever the sends before it did.  `out`
\* gives the outcome of each attempt, `log` collects the attempts made.
RECURSIVE FanOut(_, _, _, _, _, _, _)
FanOut(subs, log, ids, r, out, configured, at) ==
    IF ids = << >> THEN [subscriptions |-> subs, log |-> log]
    ELSE LET s == Head(ids)
         IN FanOut(SendPushNotification(subs, s, out[s], configured, at),
                   IF configured THEN Append(log, Attempt(r, s, out[s])) ELSE log,
                   Tail(ids), r, out, configured, at)

\* send_to_user: the registry after the fan-out ...
SendToUser(subs, u, out, configured, at) ==
    FanOut(subs, << >>, SortedSeq(SubscriptionsOf(subs, u)), Null, out, configured,
           at).subscriptions

\* ... and the attempts it made for reminder r, in order.
Attempts(subs, u, r, out, configured) ==
    FanOut(subs, << >>, SortedSeq(SubscriptionsOf(subs, u)), r, out, configured,
           NoTime).log

----------------------------------------------------------------------------
\* Dispatcher

\* Fault: the status filter of get_pending_reminders left out.
PendingRemindersAnyStatus(rs, before) ==
    {r \in DOMAIN rs : rs[r].fire_at <= before}

\* get_pending_reminders: pending or snoozed, fire_at <= before.
PendingReminders(rs, before) ==
    {r \in DOMAIN rs : rs[r].fire_at <= before /\ rs[r].status \in ActiveStatus}

\* Fault: the batch in primary-key order, the ORDER BY left out.
OrderById(rs, ids) == SortedSeq(ids)

\* ... ORDER BY fire_at (rows with equal fire_at in id order).
RECURSIVE OrderByFireAt(_, _)
OrderByFireAt(rs, ids) ==
    IF ids = {} THEN << >>
    ELSE LET first == CHOOSE r \in ids :
                        \A q \in ids : \/ rs[r].fire_at < rs[q].fire_at
                                       \/ (rs[r].fire_at = rs[q].fire_at /\ r <= q)
         IN <<first>> \o OrderByFireAt(rs, ids \ {first})

Db(rs, ns, subs, nid, log, sent) ==
    [reminders |-> rs, notifications |-> ns, subscriptions |-> subs,
     next |-> nid, log |-> log, sent |-> sent]

\* Fault: fire_reminder giving up after a push that was not delivered, the
\* notification already written and the reminder still unsent.
FireReminderUnlessPushFails(ts, db, r, out, configured, at) ==
    LET rem == db.reminders[r]
        failed == \E a \in Range(Attempts(db.subscriptions, rem.user_id, r, out, configured)) :
                     a.outcome # "ok"
    IN IF rem.todo_id \notin DOMAIN ts
       THEN [db EXCEPT !.reminders[r].status = "cancelled"]
       ELSE IF failed
       THEN [db EXCEPT
               !.notifications = Put(@, db.next,
                                     Notification(rem.user_id, "reminder", rem.todo_id, r, at)),
               !.next = @ + 1,
               !.subscriptions = SendToUser(@, rem.user_id, out, configured, at),
               !.log = @ \o Attempts(db.subscriptions, rem.user_id, r, out, configured)]
       ELSE [db EXCEPT
               !.notifications = Put(@, db.next,
                                     Notification(rem.user_id, "reminder", rem.todo_id, r, at)),
               !.next = @ + 1,
               !.subscriptions = SendToUser(@, rem.user_id, out, configured, at),
               !.log = @ \o Attempts(db.subscriptions, rem.user_id, r, out, configured),
               !.reminders[r].status = "sent",
               !.reminders[r].sent_at = at,
               !.sent[r] = @ + 1]

\* fire_reminder: a reminder whose todo is gone is cancelled; otherwise the
\* notification row is written, the pushes are attempted, and the reminder is
\* marked sent, whatever the pushes did.
FireReminder(ts, db, r, out, configured, at) ==
    LET rem == db.reminders[r]
    IN IF rem.todo_id \notin DOMAIN ts
       THEN [db EXCEPT !.reminders[r].status = "cancelled"]
       ELSE [db EXCEPT
               !.notifications = Put(@, db.next,
                                     Notification(rem.user_id, "reminder", rem.todo_id, r, at)),
               !.next = @ + 1,
               !.subscriptions = SendToUser(@, rem.user_id, out, configured, at),
               !.log = @ \o Attempts(db.subscriptions, rem.user_id, r, out, configured),
               !.reminders[r].status = "sent",
               !.reminders[r].sent_at = at,
               !.sent[r] = @ + 1]

\* process_pending_reminders: the loop over the batch.
RECURSIVE FireAll(_, _, _, _, _, _)
FireAll(ts, db, batch, out, configured, at) ==
    IF batch = << >> THEN db
    ELSE FireAll(ts, FireReminder(ts, db, Head(batch), out[Head(batch)], configured, at),
                 Tail(batch), out, configured, at)

\* process_pending_reminders, called with a session: the reminders that are
\* due, fired one after the other.
ProcessPendingReminders ==
    LET due == PendingReminders(reminders, now)
        batch == OrderByFireAt(reminders, due)
    IN \E out \in [due -> [DOMAIN subscriptions -> Outcomes]] :
         LET db == FireAll(todos, Db(reminders, notifications, subscriptions,
                                     nextId.notification, << >>, sentCount),
                           batch, out, pushConfigured, now)
         IN /\ reminders' = db.reminders
            /\ notifications' = db.notifications
            /\ subscriptions' = db.subscriptions
            /\ nextId' = [nextId EXCEPT !.notification = db.next]
            /\ pushLog' = db.log
            /\ sentCount' = db.sent
            /\ lastCall' = Call("tick", Len(batch), "ok")
            /\ UNCHANGED <<now, todos, occurrences, prefs, pushConfigured>>

\* One dispatcher tick: a run of process_pending_reminders from start to end.
Tick == ProcessPendingReminders /\ UNCHANGED procs

\* Midnight: the clock moves to the start of the next day.
NextDay ==
    /\ now' = (Today + 1) * SecondsPerDay
    /\ UNCHANGED <<todos, occurrences, reminders, notifications, subscriptions,
                   prefs, nextId, pushConfigured, procs, pushLog, sentCount, lastCall>>

\* The clock moves on.
AdvanceClock ==
    /\ now' = now + ClockStep
    /\ UNCHANGED <<todos, occurrences, reminders, notifications, subscriptions,
                   prefs, nextId, pushConfigured, procs, pushLog, sentCount, lastCall>>

----------------------------------------------------------------------------
\* Preferences

\* PATCH /me/preferences: the fields provided are set, the others are kept.
PatchPreferences(u, data) ==
    /\ prefs' = [prefs EXCEPT ![u] = [f \in DOMAIN @ |->
                                        IF f \in DOMAIN data THEN data[f] ELSE @[f]]]
    /\ lastCall' = Call("update_preferences", Null, "ok")
    /\ UNCHANGED <<now, todos, occurrences, reminders, notifications, subscriptions,
                   nextId, pushConfigured, procs, pushLog, sentCount>>

\* ... with default_reminder_offset
UpdatePreferences(u, offset) ==
    PatchPreferences(u, [default_reminder_offset |-> offset])

----------------------------------------------------------------------------
\* Daily digest

\* The zones of the model and their offsets from UTC in hours (neither has
\* daylight saving time).
Timezones == {"UTC", "Asia/Tokyo"}
UtcOffset(tz) == IF tz = "Asia/Tokyo" THEN 9 ELSE 0

\* now_utc.astimezone(user_tz): the local hour and the local calendar day.
LocalHour(t, tz) == ((t \div SecondsPerHour) + UtcOffset(tz)) % (SecondsPerDay \div SecondsPerHour)
LocalDay(t, tz) == (t + UtcOffset(tz) * SecondsPerHour) \div SecondsPerDay

\* _is_digest_time: the local hour is the hour of daily_digest_time.
IsDigestTime(pref, now_utc) ==
    /\ pref.daily_digest_time # NoHour
    /\ pref.timezone \in Timezones
    /\ LocalHour(now_utc, pref.timezone) = pref.daily_digest_time

Digests(ns, u) ==
    {n \in DOMAIN ns : ns[n].user_id = u /\ ns[n].type = "daily_digest"}

\* _already_sent_today: a digest of the user created at or after the start of
\* date.today(), taken as a UTC instant.
AlreadySentToday(ns, u, today) ==
    \E n \in Digests(ns, u) : ns[n].created_at >= today * SecondsPerDay

\* The users process_daily_digests sends a digest to.
DigestUsers(ps, ns, now_utc) ==
    {u \in DOMAIN ps : /\ ps[u].daily_digest_enabled
                        /\ ps[u].daily_digest_time # NoHour
                        /\ IsDigestTime(ps[u], now_utc)
                        /\ ~AlreadySentToday(ns, u, now_utc \div SecondsPerDay)}

\* _send_digest's queries: the user's todos due today and not completed
\* (recurring or not), the user's pending occurrences of today, and the
\* todos that are parents of those occurrences.
RegularTodos(ts, u, today) ==
    {t \in DOMAIN ts : ts[t].user_id = u /\ ts[t].due_date = today /\ ~ts[t].completed}
PendingToday(os, u, today) ==
    {o \in DOMAIN os : /\ os[o].user_id = u
                        /\ os[o].occurrence_date = today
                        /\ os[o].status = "pending"}
RecurringTodosToday(ts, os, u, today) ==
    {t \in DOMAIN ts : \E o \in PendingToday(os, u, today) : os[o].parent_todo_id = t}

TotalCount(ts, os, u, today) ==
    Cardinality(RegularTodos(ts, u, today)) + Cardinality(RecurringTodosToday(ts, os, u, today))

DigestTitle(total_count) ==
    [text |-> IF total_count = 0 THEN "Daily Digest: No tasks due today"
              ELSE IF total_count = 1 THEN "Daily Digest: {total_count} task due today"
              ELSE "Daily Digest: {total_count} tasks due today",
     count |-> total_count]

\* _send_digest: one daily_digest notification, linked to no todo and no
\* reminder, titled with the count of date.today().
SendDigest(ts, os, u, at) ==
    [Notification(u, "daily_digest", Null, Null, at) EXCEPT
       !.title = DigestTitle(TotalCount(ts, os, u, at \div SecondsPerDay))]

\* ... for each of the users.
RECURSIVE SendDigests(_, _, _, _, _, _)
SendDigests(ts, os, ns, nid, us, at) ==
    IF us = {} THEN ns
    ELSE LET u == CHOOSE x \in us : TRUE
         IN SendDigests(ts, os, Put(ns, nid, SendDigest(ts, os, u, at)),
                        nid + 1, us \ {u}, at)

\* process_daily_digests: one run over the users with the digest enabled.
ProcessDailyDigests ==
    LET us == DigestUsers(prefs, notifications, now)
    IN /\ notifications' = SendDigests(todos, occurrences, notifications,
                                       nextId.notification, us, now)
       /\ nextId' = [nextId EXCEPT !.notification = @ + Cardinality(us)]
       /\ lastCall' = Call("daily_digest", Cardinality(us), "ok")
       /\ UNCHANGED <<now, todos, occurrences, reminders, subscriptions, prefs,
                      pushConfigured, pushLog, sentCount>>

\* daily_digest_job: process_daily_digests is called inside the `async for`.
DailyDigestJob ==
    /\ IF AsyncForRaises(SessionProvider)
       THEN JobFails("daily_digest_job")
       ELSE ProcessDailyDigests
    /\ UNCHANGED procs

----------------------------------------------------------------------------
\* Reads and the notification endpoints

\* get_todo_by_id: the row with this id AND this owner, or none.
GetTodoById(ts, u, t) ==
    IF t \in DOMAIN ts /\ ts[t].user_id = u THEN t ELSE Null

\* GET /todos/{id}
GetTodo(u, t) ==
    /\ lastCall' = Call("get_todo", t,
                        IF GetTodoById(todos, u, t) = Null THEN "not_found" ELSE "ok")
    /\ UNCHANGED <<now, todos, occurrences, reminders, notifications, subscriptions,
                   prefs, nextId, pushConfigured, procs, pushLog, sentCount>>

\* Fault: mark_as_read without the filter on the owner.
MarkAnyNotificationRead(u, n) ==
    /\ UNCHANGED <<now, todos, occurrences, reminders, subscriptions, prefs, nextId,
                   pushConfigured, procs, pushLog, sentCount>>
    /\ IF n \in DOMAIN notifications /\ ~notifications[n].read
       THEN /\ notifications' = [notifications EXCEPT ![n].read = TRUE]
            /\ lastCall' = Call("mark_notification_read", n, "ok")
       ELSE /\ lastCall' = Call("mark_notification_read", n, "not_found")
            /\ UNCHANGED notifications

\* PATCH /notifications/{id}: mark_as_read counts the caller's unread rows
\* with this id; none counted is answered 404.
MarkNotificationRead(u, n) ==
    /\ UNCHANGED <<now, todos, occurrences, reminders, subscriptions, prefs, nextId,
                   pushConfigured, procs, pushLog, sentCount>>
    /\ IF n \in DOMAIN notifications /\ notifications[n].user_id = u /\ ~notifications[n].read
       THEN /\ notifications' = [notifications EXCEPT ![n].read = TRUE]
            /\ lastCall' = Call("mark_notification_read", n, "ok")
       ELSE /\ lastCall' = Call("mark_notification_read", n, "not_found")
            /\ UNCHANGED notifications

\* DELETE /notifications/{id}
DeleteNotification(u, n) ==
    /\ UNCHANGED <<now, todos, occurrences, reminders, subscriptions, prefs, nextId,
                   pushConfigured, procs, pushLog, sentCount>>
    /\ IF n \in DOMAIN notifications /\ notifications[n].user_id = u
       THEN /\ notifications' = Drop(notifications, {n})
            /\ lastCall' = Call("delete_notification", n, "ok")
       ELSE /\ lastCall' = Call("delete_notification", n, "not_found")
            /\ UNCHANGED notifications

----------------------------------------------------------------------------
\* Retention sweeper

\* The body of cleanup_notifications_job: every notification created before
\* the cutoff is deleted, in one commit.
DeleteOldNotifications ==
    LET cutoff_date == now - RETENTION_DAYS * SecondsPerDay
        old_notifications == {n \in DOMAIN notifications :
                                notifications[n].created_at < cutoff_date}
    IN /\ notifications' = Drop(notifications, old_notifications)
       /\ lastCall' = Call("cleanup_notifications_job", Cardinality(old_notifications), "ok")
       /\ UNCHANGED <<now, todos, occurrences, reminders, subscriptions, prefs, nextId,
                      pushConfigured, pushLog, sentCount>>

\* cleanup_notifications_job: the body runs inside the `async for`.
CleanupNotificationsJob ==
    /\ IF AsyncForRaises(SessionProvider)
       THEN JobFails("cleanup_notifications_job")
       ELSE DeleteOldNotifications
    /\ UNCHANGED procs

\* Time goes by: the clock moves on by d seconds.
Sleep(d) ==
    /\ now' = now + d
    /\ UNCHANGED <<todos, occurrences, reminders, notifications, subscriptions,
                   prefs, nextId, pushConfigured, procs, pushLog, sentCount, lastCall>>

----------------------------------------------------------------------------
\* Top-ups running side by side: each reads the existing dates, builds its
\* rows, and commits them later, with the other's commit possibly in between.

InFlight(op, t, rows) == [pc |-> "commit", op |-> op, todo |-> t, rows |-> rows]

Rows(t, u, dates) == [i \in 1..Len(dates) |-> Occurrence(t, u, dates[i])]

\* _generate_occurrences up to session.add: the rows for the dates not read.
TopUpRead(p, u, t, start_date, max_occurrences) ==
    /\ procs[p] = Idle
    /\ t \in DOMAIN todos
    /\ todos[t].user_id = u
    /\ todos[t].is_recurring
    /\ LET dates == GenerateOccurrences(todos[t].rrule, start_date, start_date,
                                        DefaultWindowEnd(start_date), max_occurrences)
           existing_dates == ExistingDates(occurrences, t)
           fresh == SelectSeq(dates, LAMBDA d : d \notin existing_dates)
       IN procs' = [procs EXCEPT ![p] = InFlight("top_up", t, Rows(t, u, fresh))]
    /\ UNCHANGED <<now, todos, occurrences, reminders, notifications, subscriptions, prefs,
                   nextId, pushConfigured, pushLog, sentCount, lastCall>>

RECURSIVE JobRows(_, _, _, _)
JobRows(ts, os, ids, today) ==
    IF ids = << >> THEN << >>
    ELSE Rows(Head(ids), ts[Head(ids)].user_id, JobDates(ts, os, Head(ids), today))
         \o JobRows(ts, os, Tail(ids), today)

\* generate_occurrences_job up to session.add, over every series; the job
\* that cannot open its session ends before it reads.
JobRead(p) ==
    /\ procs[p] = Idle
    /\ IF AsyncForRaises(SessionProvider)
       THEN JobFails("generate_occurrences_job") /\ UNCHANGED procs
       ELSE /\ procs' = [procs EXCEPT
                           ![p] = InFlight("generate_occurrences_job", Null,
                                           JobRows(todos, occurrences,
                                                   RecurringTodos(todos), Today))]
            /\ UNCHANGED <<now, todos, occurrences, reminders, notifications, subscriptions,
                           prefs, nextId, pushConfigured, pushLog, sentCount, lastCall>>

\* UNIQUE (parent_todo_id, occurrence_date): a row of the transaction has the
\* series and date of a row on file.
Conflicts(os, rows) ==
    \E i \in 1..Len(rows), o \in DOMAIN os :
       /\ os[o].parent_todo_id = rows[i].parent_todo_id
       /\ os[o].occurrence_date = rows[i].occurrence_date

\* session.commit() of a top-up: no rows, nothing to commit; a row that breaks
\* the unique constraint makes the commit raise IntegrityError, which neither
\* _generate_occurrences nor its callers catch (the job logs it and ends), and
\* the transaction is rolled back; otherwise the rows are written and
\* _generate_occurrences adds their number to the head's counter.
TopUpCommit(p) ==
    /\ procs[p] # Idle
    /\ procs' = [procs EXCEPT ![p] = Idle]
    /\ UNCHANGED <<now, reminders, notifications, subscriptions, prefs,
                   pushConfigured, pushLog, sentCount>>
    /\ LET rows == procs[p].rows
           t == procs[p].todo
           nid == nextId.occurrence
       IN IF rows = << >>
          THEN /\ lastCall' = Call(procs[p].op, t, "unchanged")
               /\ UNCHANGED <<todos, occurrences, nextId>>
          ELSE IF Conflicts(occurrences, rows)
          THEN /\ lastCall' = Call(procs[p].op, t, "integrity_error")
               /\ UNCHANGED <<todos, occurrences, nextId>>
          ELSE /\ occurrences' = Merge(occurrences,
                                       [i \in nid..(nid + Len(rows) - 1) |-> rows[i - nid + 1]])
               /\ nextId' = [nextId EXCEPT !.occurrence = nid + Len(rows)]
               /\ todos' = IF procs[p].op = "top_up" /\ t \in DOMAIN todos
                            THEN [todos EXCEPT ![t].occurrences_generated = @ + Len(rows)]
                            ELSE todos
               /\ lastCall' = Call(procs[p].op, t, "created")

----------------------------------------------------------------------------
\* Scheduler: init_scheduler registers four jobs with the job defaults
\* coalesce = True and max_instances = 1.

\* add_job: the id of each job and the function it runs.
JobFunction ==
    [process_reminders |-> "process_reminders_job",
     generate_occurrences |-> "generate_occurrences_job",
     daily_digest |-> "daily_digest_job",
     cleanup_notifications |-> "cleanup_notifications_job"]

JobIds == DOMAIN JobFunction

Execution(j, runs) == [pc |-> "run", job |-> j, runs |-> runs]

Running(j) == {p \in Procs : procs[p] # Idle /\ procs[p].pc = "run" /\ procs[p].job = j}

\* Fault: a job submitted whatever the number of its running executions.
SubmitWithoutLimit(p, j, missed) ==
    /\ procs[p] = Idle
    /\ procs' = [procs EXCEPT ![p] = Execution(j, IF COALESCE THEN 1 ELSE missed)]
    /\ lastCall' = [Call("submit", missed, "submitted") EXCEPT !.args = <<j>>]
    /\ UNCHANGED <<now, todos, occurrences, reminders, notifications, subscriptions, prefs,
                   nextId, pushConfigured, pushLog, sentCount>>

\* The scheduler wakes up with `missed` run times of job j due.  With coalesce
\* they count as one run.  A job that has max_instances executions running is
\* not submitted and the run is skipped; otherwise one execution starts.
Submit(p, j, missed) ==
    /\ procs[p] = Idle
    /\ IF Cardinality(Running(j)) >= MAX_INSTANCES
       THEN /\ lastCall' = [Call("submit", missed, "skipped") EXCEPT !.args = <<j>>]
            /\ UNCHANGED procs
       ELSE /\ procs' = [procs EXCEPT ![p] = Execution(j, IF COALESCE THEN 1 ELSE missed)]
            /\ lastCall' = [Call("submit", missed, "submitted") EXCEPT !.args = <<j>>]
    /\ UNCHANGED <<now, todos, occurrences, reminders, notifications, subscriptions, prefs,
                   nextId, pushConfigured, pushLog, sentCount>>

\* An execution calls the job function once for each run time it was
\* submitted with, and ends after the last.
RunJob(p) ==
    /\ procs[p] # Idle
    /\ procs[p].pc = "run"
    /\ procs' = [procs EXCEPT ![p] = IF procs[p].runs > 1
                                     THEN Execution(procs[p].job, procs[p].runs - 1)
                                     ELSE Idle]
    /\ LET job == JobFunction[procs[p].job]
       IN IF AsyncForRaises(SessionProvider)
          THEN JobFails(job)
          ELSE CASE job = "process_reminders_job" -> ProcessPendingReminders
                 [] job = "generate_occurrences_job" -> TopUpEverySeries
                 [] job = "daily_digest_job" -> ProcessDailyDigests
                 [] OTHER -> DeleteOldNotifications

----------------------------------------------------------------------------
\* The dispatcher step by step: requests served by another process fall
\* between the select of a tick and its writes.

Firing(batch) == [pc |-> "fire", batch |-> batch]

\* process_pending_reminders up to the loop: get_pending_reminders loads the
\* batch.  With nothing due the run is over.
TickRead(p) ==
    /\ \A q \in Procs : procs[q] = Idle
    /\ LET batch == OrderByFireAt(reminders, PendingReminders(reminders, now))
       IN IF batch = << >>
          THEN /\ lastCall' = Call("tick", 0, "ok")
               /\ UNCHANGED procs
          ELSE /\ procs' = [procs EXCEPT ![p] = Firing(batch)]
               /\ lastCall' = Call("tick_read", Len(batch), "ok")
    /\ UNCHANGED <<now, todos, occurrences, reminders, notifications, subscriptions, prefs,
                   nextId, pushConfigured, pushLog, sentCount>>

\* One turn of the loop: fire_reminder on the next reminder of the batch, as
\* the row is now.  A row deleted since the select makes fire_reminder raise
\* (the notification's foreign key, or the reload of the deleted row);
\* process_pending_reminders has no handler, so the run ends there.
TickFire(p) ==
    /\ procs[p] # Idle
    /\ procs[p].pc = "fire"
    /\ UNCHANGED <<now, todos, occurrences, prefs, pushConfigured>>
    /\ LET r == Head(procs[p].batch)
           rest == Tail(procs[p].batch)
       IN IF r \notin DOMAIN reminders
          THEN /\ procs' = [procs EXCEPT ![p] = Idle]
               /\ lastCall' = Call("tick", r, "error")
               /\ UNCHANGED <<reminders, notifications, subscriptions, nextId,
                              pushLog, sentCount>>
          ELSE \E out \in [DOMAIN subscriptions -> Outcomes] :
                 LET db == FireReminder(todos, Db(reminders, notifications, subscriptions,
                                                  nextId.notification, pushLog, sentCount),
                                        r, out, pushConfigured, now)
                 IN /\ reminders' = db.reminders
                    /\ notifications' = db.notifications
                    /\ subscriptions' = db.subscriptions
                    /\ nextId' = [nextId EXCEPT !.notification = db.next]
                    /\ pushLog' = db.log
                    /\ sentCount' = db.sent
                    /\ procs' = [procs EXCEPT ![p] = IF rest = << >> THEN Idle
                                                     ELSE Firing(rest)]
                    /\ lastCall' = Call(IF rest = << >> THEN "tick" ELSE "fire_reminder",
                                        r, "ok")

----------------------------------------------------------------------------
\* Reminder engine: requests of the users, the dispatcher and the clock.

TodoIds == 1..MaxTodos
ReminderIds == 1..MaxReminders
DueDates == {Day0}
DailyTwice == Config("daily", 1, {}, NoDate, 2)
Configs == {NoRecurrence, DailyTwice}
FireTimes == {now, now + ClockStep}
EndOfTime == Day0 * SecondsPerDay + MaxClock * ClockStep

Next ==
    \/ \E u \in Users, due \in DueDates, config \in Configs :
         nextId.todo <= MaxTodos /\ CreateTodo(u, due, config)
    \/ \E u \in Users, t \in TodoIds : DeleteTodo(u, t)
    \/ \E u \in Users, t \in TodoIds, at \in FireTimes :
         nextId.reminder <= MaxReminders /\ CreateReminder(u, t, at, NoOffset)
    \/ \E u \in Users, r \in ReminderIds : SnoozeReminder(u, r, MinSnoozeMinutes)
    \/ \E u \in Users, r \in ReminderIds : DeleteReminder(u, r)
    \/ \E t \in TodoIds : CancelTodoReminders(t)
    \/ \E u \in Users, e \in Endpoints :
         nextId.subscription <= MaxSubscriptions /\ RegisterSubscription(u, e)
    \/ nextId.notification <= MaxNotifications /\ Tick
    \/ now < EndOfTime /\ AdvanceClock

Spec == Init /\ [][Next]_vars

----------------------------------------------------------------------------
\* Occurrences: series, their occurrences, top-ups and the days going by.

WeeklyForever == Config("weekly", 1, {}, NoDate, NoCount)
SeriesConfigs == {WeeklyForever, DailyTwice}
TouchedIds == 1..MaxTouched
TopUpStarts == {Day0, Day0 + 1}
TopUpCaps == {MIN_FUTURE * 2, DEFAULT_MAX_OCCURRENCES}
RoomForOccurrences == nextId.occurrence <= MaxOccurrences

NextOcc ==
    \/ \E u \in Users, config \in SeriesConfigs :
         nextId.todo <= MaxSeries /\ CreateTodo(u, Day0, config)
    \/ \E u \in Users, o \in TouchedIds, st \in OccurrenceStatus : PatchOccurrence(u, o, st)
    \/ \E u \in Users, o \in TouchedIds : RoomForOccurrences /\ CompleteOccurrence(u, o)
    \/ \E u \in Users, o \in TouchedIds : RoomForOccurrences /\ SkipOccurrence(u, o)
    \/ \E u \in Users, t \in 1..MaxSeries :
         /\ nextId.todo <= MaxSeries + MaxEdits
         /\ RoomForOccurrences
         /\ UpdateTodo(u, t, NoDate, "this_only")
    \/ \E u \in Users, t \in 1..MaxSeries, start \in TopUpStarts, cap \in TopUpCaps :
         RoomForOccurrences /\ GenerateOccurrencesCall(u, t, start, cap)
    \/ RoomForOccurrences /\ GenerateOccurrencesJob
    \/ Today < Day0 + MaxDays /\ NextDay

SpecOcc == Init /\ [][NextOcc]_vars

----------------------------------------------------------------------------
\* The cap on active reminders: one todo, reminders by offset from its due
\* date, the dispatcher, snoozes.

CapUsers == {"u1"}
CapTodoIds == 1..CapTodos
CapReminderIds == 1..CapReminders
FiveMinutesBefore == -MinSnoozeMinutes
DefaultOffsets == {FiveMinutesBefore}

NextCap ==
    \/ \E u \in CapUsers, offset \in DefaultOffsets : UpdatePreferences(u, offset)
    \/ \E u \in CapUsers :
         nextId.todo <= CapTodos /\ CreateTodo(u, Day0, NoRecurrence)
    \/ \E u \in CapUsers, t \in CapTodoIds :
         nextId.reminder <= CapReminders /\ CreateReminder(u, t, NoTime, 0)
    \/ \E u \in CapUsers, r \in CapReminderIds : SnoozeReminder(u, r, MinSnoozeMinutes)
    \/ \E u \in CapUsers, r \in CapReminderIds : DeleteReminder(u, r)
    \/ nextId.notification <= CapNotifications /\ Tick

SpecCap == Init /\ [][NextCap]_vars

----------------------------------------------------------------------------
\* Two top-ups of one series in flight at a time.

NextConc ==
    \/ \E u \in Users, config \in SeriesConfigs :
         nextId.todo <= MaxSeries /\ CreateTodo(u, Day0, config)
    \/ \E p \in Procs, u \in Users, t \in 1..MaxSeries, start \in TopUpStarts :
         nextId.occurrence <= MaxOccurrences /\ TopUpRead(p, u, t, start, MIN_FUTURE * 2)
    \/ \E p \in Procs : nextId.occurrence <= MaxOccurrences /\ JobRead(p)
    \/ \E p \in Procs : TopUpCommit(p)
    \/ \E u \in Users, o \in TouchedIds : PatchOccurrence(u, o, "completed")
    \/ Today < Day0 + MaxDays /\ NextDay

SpecConc == Init /\ [][NextConc]_vars

----------------------------------------------------------------------------
\* Retention: reminders fire and leave notifications, weeks and months go by,
\* the sweeper runs.  The sweeper is scheduled every day (CronTrigger at 2 AM
\* with coalescing), so it runs again whenever it has something to do.

SweepReminderIds == 1..SweepReminders
SweepSteps == {(RETENTION_DAYS \div 2) * SecondsPerDay, RETENTION_DAYS * SecondsPerDay}
SweepEnd == (Day0 + SweepDays) * SecondsPerDay

NextSweep ==
    \/ \E u \in CapUsers : nextId.todo <= CapTodos /\ CreateTodo(u, Day0, NoRecurrence)
    \/ \E u \in CapUsers, t \in CapTodoIds :
         nextId.reminder <= SweepReminders /\ CreateReminder(u, t, now, NoOffset)
    \/ Tick
    \/ \E d \in SweepSteps : now + d <= SweepEnd /\ Sleep(d)
    \/ CleanupNotificationsJob

SpecSweep == Init /\ [][NextSweep]_vars /\ WF_vars(CleanupNotificationsJob)

----------------------------------------------------------------------------
\* Digest: a user sets the digest hour and the timezone, the hours go by, the
\* digest job runs any number of times in an hour.

DigestHours == {8, 9}
DigestSettings ==
    [timezone : Timezones, daily_digest_enabled : {TRUE}, daily_digest_time : DigestHours]
DigestEnd == Day0 * SecondsPerDay + MaxHours * SecondsPerHour

NextDigest ==
    \/ \E u \in CapUsers, data \in DigestSettings : PatchPreferences(u, data)
    \/ nextId.notification <= MaxDigests /\ ProcessDailyDigests /\ UNCHANGED procs
    \/ DailyDigestJob
    \/ now + SecondsPerHour <= DigestEnd /\ Sleep(SecondsPerHour)

SpecDigest == Init /\ [][NextDigest]_vars

----------------------------------------------------------------------------
\* Isolation: two users, each addressing todos, occurrences, reminders and
\* notifications by id, the other's and ids that do not exist included.

IsoTodoIds == 1..(IsoTodos + 1)
IsoReminderIds == 1..(IsoReminders + 1)
IsoOccurrenceIds == 1..MaxTouched
IsoNotificationIds == 1..(IsoNotifications + 1)

NextIso ==
    \/ \E u \in Users, config \in Configs :
         nextId.todo <= IsoTodos /\ CreateTodo(u, Day0, config)
    \/ \E u \in Users, t \in IsoTodoIds : GetTodo(u, t)
    \/ \E u \in Users, t \in IsoTodoIds : UpdateTodo(u, t, Day0 + 1, "all_future")
    \/ \E u \in Users, t \in IsoTodoIds : DeleteTodo(u, t)
    \/ \E u \in Users, o \in IsoOccurrenceIds : PatchOccurrence(u, o, "completed")
    \/ \E u \in Users, o \in IsoOccurrenceIds : CompleteOccurrence(u, o)
    \/ \E u \in Users, o \in IsoOccurrenceIds : SkipOccurrence(u, o)
    \/ \E u \in Users, t \in IsoTodoIds :
         nextId.reminder <= IsoReminders /\ CreateReminder(u, t, now, NoOffset)
    \/ \E u \in Users, r \in IsoReminderIds : SnoozeReminder(u, r, MinSnoozeMinutes)
    \/ \E u \in Users, r \in IsoReminderIds : DeleteReminder(u, r)
    \/ nextId.notification <= IsoNotifications /\ Tick
    \/ \E u \in Users, n \in IsoNotificationIds : MarkNotificationRead(u, n)
    \/ \E u \in Users, n \in IsoNotificationIds : DeleteNotification(u, n)

SpecIso == Init /\ [][NextIso]_vars

----------------------------------------------------------------------------
\* Properties of the reminder engine

Kept == DOMAIN reminders \cap DOMAIN reminders'

NewNotificationsFor(r) ==
    {n \in DOMAIN notifications' \ DOMAIN notifications : notifications'[n].reminder_id = r}

SpecTransitions ==
    {<<"pending", "sent">>, <<"pending", "snoozed">>, <<"pending", "cancelled">>,
     <<"snoozed", "sent">>, <<"snoozed", "cancelled">>, <<"snoozed", "snoozed">>}
CodeTransitions ==
    SpecTransitions \cup {<<"sent", "snoozed">>, <<"cancelled", "snoozed">>}

C9_DeleteCascades ==
    (lastCall.op = "delete_todo" /\ lastCall.result # "not_found") =>
       /\ lastCall.id \notin DOMAIN todos
       /\ RemindersOf(reminders, lastCall.id) = {}
       /\ OccurrencesOf(occurrences, lastCall.id) = {}
       /\ \A n \in DOMAIN notifications : notifications[n].todo_id # lastCall.id

\* C10: delete_todo asked by the owner leaves every reminder of the todo that
\* was pending or snoozed cancelled (or removed), so none of them can fire.
C10_DeleteCancelsReminders ==
    [][(lastCall'.op = "delete_todo" /\ lastCall'.result # "not_found" /\ now' = now) =>
         \A r \in ActiveReminders(reminders, lastCall'.id) :
            r \in DOMAIN reminders' => reminders'[r].status = "cancelled"]_vars

----------------------------------------------------------------------------
\* Properties of the occurrence maintainer

\* C7: a top-up called a second time in a row on the same series with the same
\* start date and cap (or the daily job run a second time in a row on the
\* same day) creates nothing: occurrences and the heads' occurrences_generated
\* stay as the first call left them.
C7_SecondTopUpCreatesNothing ==
    [][(/\ lastCall'.op \in {"top_up", "generate_occurrences_job"}
        /\ lastCall'.args[Len(lastCall'.args)] = 2)
       => (occurrences' = occurrences /\ todos' = todos)]_vars

\* The second of two equal top-ups in a row has run, on a series the rule
\* gives dates for, and the series has a row for each, once.
C7_Witness ==
    /\ lastCall.op = "top_up"
    /\ lastCall.args[3] = 2
    /\ LET t == lastCall.id
           dates == GenerateOccurrences(todos[t].rrule, lastCall.args[1], lastCall.args[1],
                                        DefaultWindowEnd(lastCall.args[1]), lastCall.args[2])
       IN /\ dates # << >>
          /\ \A d \in Range(dates) :
                Cardinality({o \in OccurrencesOf(occurrences, t) :
                               occurrences[o].occurrence_date = d}) = 1
          /\ todos[t].occurrences_generated = Cardinality(OccurrencesOf(occurrences, t))

OccKept == DOMAIN occurrences \cap DOMAIN occurrences'

----------------------------------------------------------------------------
\* Properties of the cap on active reminders

\* C4: every todo has at most MAX_REMINDERS_PER_TODO reminders that are
\* pending or snoozed.
C4_AtMostFiveActive ==
    \A t \in DOMAIN todos :
       Cardinality(ActiveReminders(reminders, t)) <= MAX_REMINDERS_PER_TODO

\* C5: create_reminder by the owner of a todo that has MAX_REMINDERS_PER_TODO
\* reminders pending or snoozed answers with a validation error and leaves
\* the reminders as they are.
C5_SixthIsRefused ==
    [][\A u \in CapUsers, t \in DOMAIN todos :
         (/\ todos[t].user_id = u
          /\ Cardinality(ActiveReminders(reminders, t)) >= MAX_REMINDERS_PER_TODO
          /\ CreateReminder(u, t, NoTime, 0))
         => (lastCall' = Call("create_reminder", t, "validation_error")
             /\ reminders' = reminders)]_vars

\* The owner's create_reminder has just been refused on a todo with five
\* active reminders.
C5_Witness ==
    /\ lastCall.op = "create_reminder"
    /\ lastCall.result = "validation_error"
    /\ lastCall.id \in DOMAIN todos
    /\ Cardinality(ActiveReminders(reminders, lastCall.id)) = MAX_REMINDERS_PER_TODO

----------------------------------------------------------------------------
\* Properties of concurrent top-ups

UniquePerDate ==
    \A a, b \in DOMAIN occurrences :
       (/\ occurrences[a].parent_todo_id = occurrences[b].parent_todo_id
        /\ occurrences[a].occurrence_date = occurrences[b].occurrence_date) => a = b

\* C6: with top-ups interleaving between their reads and their commits, there
\* is at most one occurrence per series and date, and no top-up fails on the
\* uniqueness conflict.
C6_ConflictIsNoOp ==
    /\ UniquePerDate
    /\ lastCall.result # "integrity_error"

----------------------------------------------------------------------------
\* Dispatcher and requests interleaved: one user, one todo, reminders that are
\* due when created, snoozes and deletions between the steps of a tick.

RaceReminderIds == 1..RaceReminders
RaceEnd == Day0 * SecondsPerDay + RaceClock * ClockStep

NextRace ==
    \/ \E u \in CapUsers : nextId.todo <= CapTodos /\ CreateTodo(u, Day0, NoRecurrence)
    \/ \E u \in CapUsers, t \in CapTodoIds :
         nextId.reminder <= RaceReminders /\ CreateReminder(u, t, now, NoOffset)
    \/ \E u \in CapUsers, r \in RaceReminderIds : SnoozeReminder(u, r, MinSnoozeMinutes)
    \/ \E u \in CapUsers, r \in RaceReminderIds : DeleteReminder(u, r)
    \/ \E p \in Procs : TickRead(p)
    \/ \E p \in Procs : TickFire(p)
    \/ now < RaceEnd /\ AdvanceClock

SpecRace == Init /\ [][NextRace]_vars

----------------------------------------------------------------------------
\* The scheduler at work: reminders come due, run times of the four jobs
\* arrive, executions start and end.  The scheduler gets to every job again
\* and again and an execution that started ends.

SchedReminderIds == 1..SchedReminders
SchedEnd == Day0 * SecondsPerDay + SchedClock * ClockStep

NextSched ==
    \/ \E u \in CapUsers : nextId.todo <= CapTodos /\ CreateTodo(u, Day0, NoRecurrence)
    \/ \E u \in CapUsers, t \in CapTodoIds :
         nextId.reminder <= SchedReminders /\ CreateReminder(u, t, now, NoOffset)
    \/ \E p \in Procs, j \in JobIds, missed \in 1..MaxMissed : Submit(p, j, missed)
    \/ \E p \in Procs : RunJob(p)
    \/ now < SchedEnd /\ AdvanceClock

SpecSched == Init /\ [][NextSched]_vars

SpecSchedFair ==
    /\ SpecSched
    /\ WF_vars(\E p \in Procs, missed \in 1..MaxMissed : Submit(p, "process_reminders", missed))
    /\ WF_vars(\E p \in Procs : RunJob(p))

----------------------------------------------------------------------------
\* Snoozes: one user, one todo, reminders due when created, snoozed by five
\* or ten minutes, ticks five minutes apart.

SnoozeReminderIds == 1..SnoozeReminders
SnoozeMinutes == {MinSnoozeMinutes, 2 * MinSnoozeMinutes}
SnoozeEnd == Day0 * SecondsPerDay + SnoozeClock * ClockStep

NextSnooze ==
    \/ \E u \in CapUsers : nextId.todo <= CapTodos /\ CreateTodo(u, Day0, NoRecurrence)
    \/ \E u \in CapUsers, t \in CapTodoIds :
         nextId.reminder <= SnoozeReminders /\ CreateReminder(u, t, now, NoOffset)
    \/ \E u \in Users, r \in SnoozeReminderIds, m \in SnoozeMinutes : SnoozeReminder(u, r, m)
    \/ nextId.notification <= SnoozeNotifications /\ Tick
    \/ now < SnoozeEnd /\ AdvanceClock

SpecSnooze == Init /\ [][NextSnooze]_vars

----------------------------------------------------------------------------
\* Push fan-out: one user with up to two subscriptions, reminders that are
\* due when created, ticks whose pushes are delivered, refused as gone, or
\* fail.

PushReminderIds == 1..PushReminders

NextPush ==
    \/ \E u \in CapUsers : nextId.todo <= CapTodos /\ CreateTodo(u, Day0, NoRecurrence)
    \/ \E u \in CapUsers, t \in CapTodoIds :
         nextId.reminder <= PushReminders /\ CreateReminder(u, t, now, NoOffset)
    \/ \E u \in CapUsers, e \in Endpoints :
         nextId.subscription <= PushSubscriptions /\ RegisterSubscription(u, e)
    \/ nextId.notification <= PushNotifications /\ Tick

SpecPush == Init /\ [][NextPush]_vars

----------------------------------------------------------------------------
\* Subscription registry: two users register and unregister two endpoints.

NextReg ==
    \/ \E u \in Users, e \in Endpoints :
         nextId.subscription <= RegSubscriptions /\ RegisterSubscription(u, e)
    \/ \E u \in Users, s \in 1..RegSubscriptions : UnregisterSubscription(u, s)

SpecReg == Init /\ [][NextReg]_vars

----------------------------------------------------------------------------
\* Series editing: one user's todos created with or without a recurrence,
\* patched under either edit scope, stopped, their occurrences completed and
\* skipped, over two days.

EditUsers == {"u1"}
EditDueDates == {NoDate, Day0}
EditConfigs == {NoRecurrence, WeeklyForever, DailyTwice}
EditScopes == {"this_only", "all_future"}
EditPatches == {NoPatch, [due_date |-> NoDate],
                [title |-> "renamed", priority |-> "high"],
                [description |-> "notes", due_date |-> Day0 + 2]}

NextEdit ==
    \/ \E u \in EditUsers, due \in EditDueDates, config \in EditConfigs :
         nextId.todo <= EditSeries /\ CreateTodo(u, due, config)
    \/ \E u \in EditUsers, t \in 1..EditSeries, data \in EditPatches, scope \in EditScopes :
         /\ nextId.todo <= EditTodos
         /\ nextId.occurrence <= EditOccurrences
         /\ PatchTodo(u, t, data, scope)
    \/ \E u \in EditUsers, t \in 1..EditSeries, keep_pending \in BOOLEAN :
         StopRecurring(u, t, keep_pending)
    \/ \E u \in EditUsers, o \in TouchedIds :
         nextId.occurrence <= EditOccurrences /\ CompleteOccurrence(u, o)
    \/ \E u \in EditUsers, o \in TouchedIds :
         nextId.occurrence <= EditOccurrences /\ SkipOccurrence(u, o)
    \/ Today < Day0 + EditDays /\ NextDay

SpecEdit == Init /\ [][NextEdit]_vars

----------------------------------------------------------------------------
\* One series of each frequency, none with an end, its occurrences
\* completed and skipped as the days go by.

MonthlyForever == Config("monthly", 1, {}, NoDate, NoCount)
YearlyForever == Config("yearly", 1, {}, NoDate, NoCount)
DailyForever == Config("daily", 1, {}, NoDate, NoCount)
EveryOtherDay == Config("custom", 2, {}, NoDate, NoCount)
FreqConfigs == {DailyForever, WeeklyForever, MonthlyForever, YearlyForever, EveryOtherDay}

NextFreq ==
    \/ \E u \in EditUsers, config \in FreqConfigs :
         nextId.todo <= 1 /\ CreateTodo(u, Day0, config)
    \/ \E u \in EditUsers, o \in 1..FreqTouched :
         nextId.occurrence <= FreqOccurrences /\ CompleteOccurrence(u, o)
    \/ \E u \in EditUsers, o \in 1..FreqTouched :
         nextId.occurrence <= FreqOccurrences /\ SkipOccurrence(u, o)
    \/ Today < Day0 + FreqDays /\ NextDay

SpecFreq == Init /\ [][NextFreq]_vars

----------------------------------------------------------------------------
\* Every path that inserts occurrences: seeding, the top-up after a
\* completion, a skip or a this_only edit, and the daily job, both as it is
\* scheduled and as its body runs given a session.

CountConfigs == {DailyForever, WeeklyForever}

NextCount ==
    \/ \E u \in EditUsers, config \in CountConfigs :
         nextId.todo <= 1 /\ CreateTodo(u, Day0, config)
    \/ \E u \in EditUsers, o \in TouchedIds :
         nextId.occurrence <= CountOccurrences /\ CompleteOccurrence(u, o)
    \/ \E u \in EditUsers, o \in TouchedIds :
         nextId.occurrence <= CountOccurrences /\ SkipOccurrence(u, o)
    \/ \E u \in EditUsers :
         /\ nextId.todo <= 2
         /\ nextId.occurrence <= CountOccurrences
         /\ PatchTodo(u, 1, NoPatch, "this_only")
    \/ GenerateOccurrencesJob
    \/ nextId.occurrence <= CountOccurrences /\ TopUpEverySeries /\ UNCHANGED procs
    \/ Today < Day0 + CountDays /\ NextDay

SpecCount == Init /\ [][NextCount]_vars

----------------------------------------------------------------------------
\* The enumerator on its own: a configuration, an anchor, a window and a cap
\* are drawn, and generate_occurrences is applied to them.

MO == 0
WE == 2
FR == 4
SA == 5
SU == 6
MondayWednesdayFriday == Config("weekly", 1, {MO, WE, FR}, NoDate, NoCount)
EnumConfigs ==
    {DailyForever, Config("daily", 3, {}, NoDate, NoCount), Config("daily", 1, {}, NoDate, 3),
     WeeklyForever, MondayWednesdayFriday,
     Config("weekly", 2, {WE, SA}, NoDate, NoCount), Config("weekly", 1, {}, Day0 + 20, NoCount),
     MonthlyForever, OnDayOfMonth(Config("monthly", 1, {}, NoDate, NoCount), 31),
     OnDayOfMonth(Config("monthly", 2, {}, NoDate, NoCount), 15),
     YearlyForever, EveryOtherDay, Config("custom", 1, {SA, SU}, NoDate, NoCount),
     OnDayOfMonth(Config("custom", 1, {}, NoDate, NoCount), 1),
     OnDayOfMonth(Config("custom", 1, {MO, FR}, NoDate, NoCount), 5)}
EnumAnchors == {Day0, DayNumber(2026, 1, 5), Day0 + 32}
EnumCaps == {1, MIN_FUTURE * 2, DEFAULT_MAX_OCCURRENCES}

InitEnum ==
    /\ now = Day0 * SecondsPerDay
    /\ todos = << >>
    /\ occurrences = << >>
    /\ reminders = << >>
    /\ notifications = << >>
    /\ subscriptions = << >>
    /\ prefs = [u \in Users |-> UserPreferences(u)]
    /\ nextId = [todo |-> 1, occurrence |-> 1, reminder |-> 1,
                 notification |-> 1, subscription |-> 1]
    /\ pushConfigured = TRUE
    /\ pushLog = << >>
    /\ sentCount = << >>
    /\ procs = [p \in Procs |-> Idle]
    /\ \E config \in EnumConfigs, start_date \in EnumAnchors, max_occurrences \in EnumCaps :
         \E window_start \in {NoDate, start_date + EnumAhead} :
           \E window_end \in {NoDate, start_date + EnumAhead + EnumYear} :
             lastCall = [Call("input", Null, "ok") EXCEPT
                           !.args = <<config, start_date, window_start, window_end,
                                      max_occurrences>>]

\* generate_occurrences(config_to_rrule(config), start_date, window_start,
\* window_end, max_occurrences): the list returned is appended to the inputs.
Enumerate ==
    /\ lastCall.op = "input"
    /\ lastCall' = [lastCall EXCEPT
                      !.op = "generate_occurrences",
                      !.args = Append(@, GenerateOccurrences(ConfigToRRule(@[1]), @[2], @[3],
                                                             @[4], @[5]))]
    /\ UNCHANGED <<now, todos, occurrences, reminders, notifications, subscriptions,
                   prefs, nextId, pushConfigured, procs, pushLog, sentCount>>

NextEnum == Enumerate

SpecEnum == InitEnum /\ [][NextEnum]_vars

----------------------------------------------------------------------------
\* The next-occurrence query on its own: a configuration, an anchor and a
\* reference date are drawn, and get_next_occurrence is applied to them.

NextConfigs ==
    {DailyForever, Config("daily", 3, {}, NoDate, NoCount), Config("daily", 1, {}, NoDate, 3),
     WeeklyForever, MondayWednesdayFriday, Config("weekly", 1, {}, Day0 + 20, NoCount),
     OnDayOfMonth(Config("monthly", 1, {}, NoDate, NoCount), 31), YearlyForever}
NextAnchors == EnumAnchors \cup {Day0 + EnumYear + EnumAhead}
ReferenceDates(start_date) ==
    {NoDate, start_date, start_date + 1, start_date + EnumAhead}

InitQuery ==
    /\ now = Day0 * SecondsPerDay
    /\ todos = << >>
    /\ occurrences = << >>
    /\ reminders = << >>
    /\ notifications = << >>
    /\ subscriptions = << >>
    /\ prefs = [u \in Users |-> UserPreferences(u)]
    /\ nextId = [todo |-> 1, occurrence |-> 1, reminder |-> 1,
                 notification |-> 1, subscription |-> 1]
    /\ pushConfigured = TRUE
    /\ pushLog = << >>
    /\ sentCount = << >>
    /\ procs = [p \in Procs |-> Idle]
    /\ \E config \in NextConfigs, start_date \in NextAnchors :
         \E after_date \in ReferenceDates(start_date) :
           lastCall = [Call("input", Null, "ok") EXCEPT
                         !.args = <<config, start_date, after_date>>]

\* get_next_occurrence(config_to_rrule(config), start_date, after_date): the
\* date returned (or none) is appended to the inputs.
NextOccurrenceQuery ==
    /\ lastCall.op = "input"
    /\ lastCall' = [lastCall EXCEPT
                      !.op = "get_next_occurrence",
                      !.args = Append(@, GetNextOccurrence(ConfigToRRule(@[1]), @[2], @[3],
                                                           Today))]
    /\ UNCHANGED <<now, todos, occurrences, reminders, notifications, subscriptions,
                   prefs, nextId, pushConfigured, procs, pushLog, sentCount>>

NextQuery == NextOccurrenceQuery

SpecQuery == InitQuery /\ [][NextQuery]_vars

----------------------------------------------------------------------------
\* Digest content: a user with the digest due at the current hour creates
\* one-off todos and series due today, tomorrow or without a due date,
\* completes todos and occurrences, and the digest runs; the days go by.

DigestDueDates == {NoDate, Day0, Day0 + 1}
DueConfigs == {NoRecurrence, DailyForever}
DueSettings ==
    {[timezone |-> "UTC", daily_digest_enabled |-> TRUE, daily_digest_time |-> 0],
     [timezone |-> "Asia/Tokyo", daily_digest_enabled |-> TRUE,
      daily_digest_time |-> UtcOffset("Asia/Tokyo")]}
Done == [completed |-> TRUE]

NextDue ==
    \/ \E u \in CapUsers, data \in DueSettings : PatchPreferences(u, data)
    \/ \E u \in CapUsers, due \in DigestDueDates, config \in DueConfigs :
         nextId.todo <= DueTodos /\ CreateTodo(u, due, config)
    \/ \E u \in CapUsers, t \in 1..DueTodos :
         t \in DOMAIN todos /\ PatchTodo(u, t, Done, "all_future")
    \/ \E u \in CapUsers, o \in DOMAIN occurrences :
         occurrences[o].occurrence_date = Today /\ CompleteOccurrence(u, o)
    \/ nextId.notification <= DueDigests /\ ProcessDailyDigests /\ UNCHANGED procs
    \/ Today < Day0 + DueDays /\ NextDay

SpecDue == Init /\ [][NextDue]_vars

----------------------------------------------------------------------------
\* Dispatcher and requests interleaved, deletion of the todo included: the
\* todo of a reminder a tick has selected can be gone when the tick fires it.

NextGone ==
    \/ NextRace
    \/ \E u \in CapUsers, t \in CapTodoIds : DeleteTodo(u, t)

SpecGone == Init /\ [][NextGone]_vars

----------------------------------------------------------------------------
\* Every path that inserts occurrences, and the end of the series: the
\* series is stopped at some point, with or without its pending occurrences,
\* and the completions, skips, edits and generation runs go on.

NextStop ==
    \/ NextCount
    \/ \E u \in EditUsers, keep_pending \in BOOLEAN : StopRecurring(u, 1, keep_pending)

SpecStop == Init /\ [][NextStop]_vars

----------------------------------------------------------------------------
\* Properties of the retention sweeper

Expired(n) ==
    /\ n \in DOMAIN notifications
    /\ notifications[n].created_at < now - RETENTION_DAYS * SecondsPerDay

\* C11: right after a run of the sweeper (a step that ends with the sweeper
\* as the latest call and leaves the clock alone) no notification created
\* before run time - 30 days remains; and, the sweeper running again and
\* again, every notification older than 30 days is eventually removed.
C11_SweepRemovesExpired ==
    /\ [][(lastCall'.op = "cleanup_notifications_job" /\ now' = now) =>
            \A n \in DOMAIN notifications' :
               notifications'[n].created_at >= now - RETENTION_DAYS * SecondsPerDay]_vars
    /\ \A n \in SweepReminderIds : Expired(n) ~> (n \notin DOMAIN notifications)

----------------------------------------------------------------------------
\* Properties of the daily digest

\* C12: a digest job run creates a daily_digest notification for a user only
\* if the user has none created in the current calendar day of the user's
\* timezone, so no local day gets two digests.
C12_OneDigestPerLocalDay ==
    [][\A n \in DOMAIN notifications' \ DOMAIN notifications :
         notifications'[n].type = "daily_digest" =>
            LET u == notifications'[n].user_id
            IN \A m \in Digests(notifications, u) :
                  LocalDay(notifications[m].created_at, prefs[u].timezone)
                     # LocalDay(now, prefs[u].timezone)]_vars

----------------------------------------------------------------------------
\* Properties of owner isolation

Owns(table, u, id) == id \in DOMAIN table /\ table[id].user_id = u

\* The step answers the request op on this id.
Asked(op, id) == lastCall'.op = op /\ lastCall'.id = id

\* The answer is 404 for this id and nothing was written.
Refused(op, id) ==
    /\ lastCall' = Call(op, id, "not_found")
    /\ UNCHANGED <<todos, occurrences, reminders, notifications, subscriptions, prefs>>

\* C13: a request that addresses a todo, occurrence, reminder or notification
\* by id, made by a user who does not own it, is answered 404 not found and
\* writes nothing, whether the id belongs to another user or to nobody.
C13_NotOwnedIsNotFound ==
    [][\A u \in Users :
         /\ \A t \in IsoTodoIds :
              ~Owns(todos, u, t) =>
                 /\ (Asked("get_todo", t) /\ GetTodo(u, t)) => Refused("get_todo", t)
                 /\ (Asked("update_todo", t) /\ UpdateTodo(u, t, Day0 + 1, "all_future")) => Refused("update_todo", t)
                 /\ (Asked("delete_todo", t) /\ DeleteTodo(u, t)) => Refused("delete_todo", t)
                 /\ (Asked("create_reminder", t) /\ CreateReminder(u, t, now, NoOffset)) => Refused("create_reminder", t)
         /\ \A o \in IsoOccurrenceIds :
              ~Owns(occurrences, u, o) =>
                 /\ (Asked("update_occurrence", o) /\ PatchOccurrence(u, o, "completed")) => Refused("update_occurrence", o)
                 /\ (Asked("complete_occurrence", o) /\ CompleteOccurrence(u, o)) => Refused("complete_occurrence", o)
                 /\ (Asked("skip_occurrence", o) /\ SkipOccurrence(u, o)) => Refused("skip_occurrence", o)
         /\ \A r \in IsoReminderIds :
              ~Owns(reminders, u, r) =>
                 /\ (Asked("snooze_reminder", r) /\ SnoozeReminder(u, r, MinSnoozeMinutes)) => Refused("snooze_reminder", r)
                 /\ (Asked("delete_reminder", r) /\ DeleteReminder(u, r)) => Refused("delete_reminder", r)
         /\ \A n \in IsoNotificationIds :
              ~Owns(notifications, u, n) =>
                 /\ (Asked("mark_notification_read", n) /\ MarkNotificationRead(u, n)) => Refused("mark_notification_read", n)
                 /\ (Asked("delete_notification", n) /\ DeleteNotification(u, n)) => Refused("delete_notification", n)]_vars

\* A user has just been refused on an unread notification that exists and is
\* another user's.
C13_Witness ==
    /\ lastCall = Call("mark_notification_read", 1, "not_found")
    /\ 1 \in DOMAIN notifications
    /\ ~notifications[1].read

----------------------------------------------------------------------------
\* Properties of the dispatcher interleaved with requests

\* C14: a snooze that falls between a tick's select and its write is not
\* lost: a reminder in status sent was due when it was marked, sent_at >=
\* fire_at.
C14_SentWasDue ==
    \A r \in DOMAIN reminders :
       reminders[r].status = "sent" => reminders[r].sent_at >= reminders[r].fire_at

\* C15: when a run of the dispatcher ends, no reminder of the batch it had
\* still to fire is left due and unfired.
C15_BatchIsFinished ==
    [][\A p \in Procs :
         (procs[p] # Idle /\ procs[p].pc = "fire" /\ procs'[p] = Idle) =>
            \A i \in 2..Len(procs[p].batch) :
               procs[p].batch[i] \notin PendingReminders(reminders', now)]_vars

----------------------------------------------------------------------------
\* Properties of the scheduler

\* C16: no job has two executions running at once; a run that comes due
\* while an execution of the job is running is skipped and starts nothing;
\* otherwise the run times that came due, however many, start one execution
\* that calls the job once.
C16_NoOverlap ==
    /\ [](\A j \in JobIds : Cardinality(Running(j)) <= 1)
    /\ [][(lastCall'.op = "submit" /\ now' = now) =>
            LET j == lastCall'.args[1]
            IN IF Running(j) # {}
               THEN lastCall'.result = "skipped" /\ procs' = procs
               ELSE /\ lastCall'.result = "submitted"
                    /\ \E p \in Procs :
                          /\ procs[p] = Idle
                          /\ procs' = [procs EXCEPT ![p] = Execution(j, 1)]]_vars

\* Two run times of the dispatcher came due while its execution was still
\* running, and were skipped.
C16_Witness ==
    /\ lastCall = [Call("submit", 2, "skipped") EXCEPT !.args = <<"process_reminders">>]
    /\ Running("process_reminders") # {}

\* C17: with the dispatcher's runs coming again and again, a reminder that is
\* pending or snoozed, on a todo that exists, with fire_at passed, is
\* eventually sent.
C17_DueIsEventuallySent ==
    \A r \in SchedReminderIds :
       (/\ r \in DOMAIN reminders
        /\ reminders[r].status \in ActiveStatus
        /\ reminders[r].todo_id \in DOMAIN todos
        /\ reminders[r].fire_at <= now)
       ~> (r \in DOMAIN reminders /\ reminders[r].status = "sent")

----------------------------------------------------------------------------
\* Properties of snoozing

----------------------------------------------------------------------------
\* Properties of the push fan-out

\* C19: a tick removes from the registry exactly the subscriptions whose
\* send was answered 'gone', and no others.
C19_GoneIsRemoved ==
    [][(lastCall'.op = "tick" /\ now' = now) =>
         DOMAIN subscriptions' =
            DOMAIN subscriptions \ {a.subscription : a \in {x \in Range(pushLog') :
                                                              x.outcome = "gone"}}]_vars

AttemptsFor(log, r, sub) ==
    {i \in DOMAIN log : log[i].reminder = r /\ log[i].subscription = sub}

\* C20: a tick makes, for each reminder it fires and each subscription of the
\* reminder's user, exactly one delivery attempt, and no attempt besides.
C20_OneAttemptEach ==
    [][(lastCall'.op = "tick" /\ now' = now /\ pushConfigured) =>
         LET fired == {r \in PendingReminders(reminders, now) :
                         reminders'[r].status = "sent"}
         IN /\ \A r \in fired :
                  \A sub \in SubscriptionsOf(subscriptions, reminders[r].user_id) :
                     Cardinality(AttemptsFor(pushLog', r, sub)) = 1
            /\ \A i \in DOMAIN pushLog' :
                  /\ pushLog'[i].reminder \in fired
                  /\ pushLog'[i].subscription \in
                        SubscriptionsOf(subscriptions,
                                        reminders[pushLog'[i].reminder].user_id)]_vars

\* A reminder was fired for a user with two subscriptions: the push to the
\* first failed and the push to the second was made all the same.
C20_Witness ==
    /\ lastCall.op = "tick"
    /\ Len(pushLog) = 2
    /\ pushLog[1].outcome # "ok"
    /\ pushLog[2].reminder = pushLog[1].reminder
    /\ pushLog[2].subscription # pushLog[1].subscription
    /\ reminders[pushLog[1].reminder].status = "sent"

----------------------------------------------------------------------------
\* Properties of the subscription registry

WithEndpoint(subs, e) == {s \in DOMAIN subs : subs[s].endpoint = e}

\* C21: after register_subscription(u, e) exactly one subscription has
\* endpoint e and it belongs to u; and no two subscriptions ever share an
\* endpoint.
C21_OneRowPerEndpoint ==
    /\ [](\A e \in Endpoints : Cardinality(WithEndpoint(subscriptions, e)) <= 1)
    /\ [][\A u \in Users, e \in Endpoints :
            (lastCall'.op = "register_subscription" /\ RegisterSubscription(u, e))
            => /\ Cardinality(WithEndpoint(subscriptions', e)) = 1
               /\ \A s \in WithEndpoint(subscriptions', e) :
                     subscriptions'[s].user_id = u]_vars

\* An endpoint registered again: its row was kept and belongs to u2, while
\* u1 holds the other endpoint.
C21_Witness ==
    /\ lastCall.op = "register_subscription"
    /\ lastCall.result = "existing"
    /\ subscriptions[lastCall.id].user_id = "u2"
    /\ \E s \in DOMAIN subscriptions : subscriptions[s].user_id = "u1"

----------------------------------------------------------------------------
\* Properties of series editing

\* C22: every todo with is_recurring set has a rule and a due date.
C22_RecurringHasRuleAndDue ==
    \A t \in DOMAIN todos :
       todos[t].is_recurring => todos[t].rrule # NoRule /\ todos[t].due_date # NoDate

Sent(data, f, none) == f \in DOMAIN data /\ data[f] # none
HeadFields == {"title", "description", "priority", "due_date", "rrule", "is_recurring"}

\* C23: a this_only edit of a series writes exactly one new todo, not
\* recurring, whose title, description and priority are the patch's where the
\* patch gives one and the head's otherwise, and whose due date is the patch's
\* if given, else the date of the current occurrence, else the head's due
\* date; the head keeps its title, description, priority, due date, rule and
\* is_recurring.
C23_ThisOnlyWritesOneCopy ==
    [][\A u \in EditUsers, t \in 1..EditSeries, data \in EditPatches :
         (/\ t \in DOMAIN todos
          /\ todos[t].user_id = u
          /\ todos[t].is_recurring
          /\ PatchTodo(u, t, data, "this_only"))
         => LET head == todos[t]
                new == DOMAIN todos' \ DOMAIN todos
                cur == GetCurrentOccurrence(occurrences, u, t, Today)
            IN /\ Cardinality(new) = 1
               /\ DOMAIN todos \subseteq DOMAIN todos'
               /\ \A x \in DOMAIN todos \ {t} : todos'[x] = todos[x]
               /\ \A f \in HeadFields : todos'[t][f] = head[f]
               /\ \A n \in new :
                     /\ todos'[n].user_id = u
                     /\ ~todos'[n].is_recurring
                     /\ todos'[n].rrule = NoRule
                     /\ todos'[n].title =
                          (IF Sent(data, "title", NoText) THEN data.title ELSE head.title)
                     /\ todos'[n].description =
                          (IF Sent(data, "description", NoText) THEN data.description
                           ELSE head.description)
                     /\ todos'[n].priority =
                          (IF Sent(data, "priority", NoText) THEN data.priority
                           ELSE head.priority)
                     /\ todos'[n].due_date =
                          (IF Sent(data, "due_date", NoDate) THEN data.due_date
                           ELSE IF cur # Null THEN occurrences[cur].occurrence_date
                           ELSE head.due_date)]_vars

\* A this_only edit that renamed the copy: the copy is due on the day of the
\* occurrence it replaces, the head has its title still.
C23_Witness ==
    /\ lastCall.op = "update_todo"
    /\ lastCall.args = <<"this_only">>
    /\ 2 \in DOMAIN todos
    /\ todos[1].is_recurring
    /\ todos[1].title = DefaultTitle
    /\ todos[2].title = "renamed"
    /\ todos[2].priority = "high"
    /\ ~todos[2].is_recurring
    /\ todos[2].due_date = Today

\* C26: stop_recurring on a series clears is_recurring and the rule and sets
\* recurrence_end_date to today.  Without keep_pending no pending occurrence
\* dated after today remains, and the completed and skipped occurrences are
\* as they were; with keep_pending every occurrence is as it was.
C26_StopEndsSeries ==
    [][\A u \in EditUsers, t \in 1..EditSeries, keep_pending \in BOOLEAN :
         (/\ t \in DOMAIN todos
          /\ todos[t].user_id = u
          /\ todos[t].is_recurring
          /\ StopRecurring(u, t, keep_pending))
         => /\ ~todos'[t].is_recurring
            /\ todos'[t].rrule = NoRule
            /\ todos'[t].recurrence_end_date = Today
            /\ keep_pending => occurrences' = occurrences
            /\ ~keep_pending =>
                 /\ \A o \in OccurrencesOf(occurrences', t) :
                       ~(/\ occurrences'[o].status = "pending"
                         /\ occurrences'[o].occurrence_date > Today)
                 /\ \A o \in DOMAIN occurrences :
                       occurrences[o].status \in {"completed", "skipped"}
                       => o \in DOMAIN occurrences' /\ occurrences'[o] = occurrences[o]]_vars

\* A series stopped without keep_pending: rows are gone, a completed and a
\* skipped one are still there.
C26_Witness ==
    /\ lastCall = [Call("stop_recurring", 1, "ok") EXCEPT !.args = <<FALSE>>]
    /\ 1 \in DOMAIN todos
    /\ ~todos[1].is_recurring
    /\ todos[1].recurrence_end_date = Today
    /\ Cardinality(DOMAIN occurrences) < nextId.occurrence - 1
    /\ \E o \in DOMAIN occurrences : occurrences[o].status = "completed"
    /\ \E o \in DOMAIN occurrences : occurrences[o].status = "skipped"

\* A series that was stopped: not recurring, with the end date the stop wrote.
Stopped(row) == ~row.is_recurring /\ row.recurrence_end_date # NoDate

\* The answer to a stop_recurring call on a stopped series of the caller's, if
\* this step is one.
StopOfStopped(u, t, keep_pending) ==
    /\ t \in DOMAIN todos
    /\ todos[t].user_id = u
    /\ Stopped(todos[t])
    /\ StopRecurring(u, t, keep_pending)

TodaysOccurrences(os, t, today) ==
    {o \in OccurrencesOf(os, t) : os[o].occurrence_date = today}

\* C24: after a this_only edit of a series that has an occurrence today, that
\* occurrence is skipped and the current-occurrence query no longer returns
\* it: it returns the next pending occurrence after today (or none).
C24_SkippedIsNotCurrent ==
    [][\A u \in EditUsers, t \in 1..EditSeries :
         (/\ t \in DOMAIN todos
          /\ todos[t].user_id = u
          /\ todos[t].is_recurring
          /\ TodaysOccurrences(occurrences, t, Today) # {}
          /\ now' = now
          /\ nextId'.todo # nextId.todo
          /\ lastCall' = [Call("update_todo", t, "ok") EXCEPT !.args = <<"this_only">>])
         => LET cur == GetCurrentOccurrence(occurrences', u, t, Today)
            IN /\ \A o \in TodaysOccurrences(occurrences, t, Today) :
                    /\ occurrences'[o].status = "skipped"
                    /\ cur # o
               /\ cur # Null => /\ occurrences'[cur].status = "pending"
                                /\ occurrences'[cur].occurrence_date > Today]_vars

----------------------------------------------------------------------------
\* Properties of the top-up after a completion or a skip

Endless(rule) == rule # NoRule /\ rule.count = NoCount /\ rule.until = NoDate
PendingFromToday(os, t, today) ==
    {o \in OccurrencesOf(os, t) : os[o].status = "pending" /\ os[o].occurrence_date >= today}

\* C25: after complete_occurrence or skip_occurrence on a series whose rule
\* has no end, whatever its frequency, the series has at least MIN_FUTURE
\* pending occurrences dated today or later, and every occurrence the top-up
\* inserted is dated after the latest occurrence there was.
C25_FivePendingAfterTopUp ==
    [][\A o \in DOMAIN occurrences :
         LET t == occurrences[o].parent_todo_id
         IN (/\ t \in DOMAIN todos
             /\ todos[t].is_recurring
             /\ Endless(todos[t].rrule)
             /\ now' = now
             /\ lastCall'.op \in {"complete_occurrence", "skip_occurrence"}
             /\ lastCall'.id = o
             /\ lastCall'.result = "ok")
            => /\ Cardinality(PendingFromToday(occurrences', t, Today)) >= MIN_FUTURE
               /\ \A x \in DOMAIN occurrences' \ DOMAIN occurrences :
                     occurrences'[x].occurrence_date > MaxOf(ExistingDates(occurrences, t))]_vars

----------------------------------------------------------------------------
\* Properties of the occurrence counter

\* C28: the head's occurrences_generated is the number of occurrence rows
\* inserted for the series (no row is deleted under SpecCount, so that is the
\* number of rows the series has).
C28_CounterCountsInserted ==
    \A t \in DOMAIN todos :
       todos[t].is_recurring
       => todos[t].occurrences_generated = Cardinality(OccurrencesOf(occurrences, t))

----------------------------------------------------------------------------
\* Properties of the enumerator

\* What a configuration asks of a date, said of the configuration itself: the
\* date is not before the anchor nor after the end date, lies a multiple of
\* the interval from the anchor in the unit of the frequency, and is on the
\* weekdays and the day of the month given, or on the anchor's.
Unit(config) ==
    IF config.frequency # "custom" THEN config.frequency
    ELSE IF config.days_of_week # {} THEN "weekly"
    ELSE IF config.day_of_month # NoDay THEN "monthly"
    ELSE "daily"

Satisfies(config, anchor, d) ==
    LET a == DateOf(anchor)
        x == DateOf(d)
        unit == Unit(config)
    IN /\ d >= anchor
       /\ config.end_date # NoDate => d <= config.end_date
       /\ config.days_of_week # {} => Weekday(d) \in config.days_of_week
       /\ config.day_of_month # NoDay => x.day = config.day_of_month
       /\ unit = "daily" => (d - anchor) % config.interval = 0
       /\ unit = "weekly" =>
            /\ ((d - Weekday(d)) - (anchor - Weekday(anchor))) % (7 * config.interval) = 0
            /\ config.days_of_week = {} => Weekday(d) = Weekday(anchor)
       /\ unit = "monthly" =>
            /\ ((x.year - a.year) * 12 + x.month - a.month) % config.interval = 0
            /\ config.day_of_month = NoDay => x.day = a.day
       /\ unit = "yearly" =>
            /\ (x.year - a.year) % config.interval = 0
            /\ x.month = a.month /\ x.day = a.day

\* C29: the list generate_occurrences returns is in non-decreasing order, has
\* at most max_occurrences entries, holds only dates of the window, and every
\* date satisfies the configuration's frequency, interval, weekdays and day
\* of the month relative to the anchor.
C29_EnumerationIsSound ==
    lastCall.op = "generate_occurrences" =>
      LET config == lastCall.args[1]
          start_date == lastCall.args[2]
          from == IF lastCall.args[3] = NoDate THEN start_date ELSE lastCall.args[3]
          to == IF lastCall.args[4] = NoDate THEN from + WINDOW_DAYS ELSE lastCall.args[4]
          cap == lastCall.args[5]
          dates == lastCall.args[6]
      IN /\ \A i \in 1..(Len(dates) - 1) : dates[i] <= dates[i + 1]
         /\ Len(dates) <= cap
         /\ \A i \in 1..Len(dates) :
               /\ from <= dates[i]
               /\ dates[i] <= to
               /\ Satisfies(config, start_date, dates[i])
         /\ config.end_count # NoCount => Len(dates) <= config.end_count

\* A rule on the 15th of every second month, anchored before the window: the
\* list starts inside the window and has several dates.
C29_Witness ==
    /\ lastCall.op = "generate_occurrences"
    /\ lastCall.args[1].day_of_month = 15
    /\ lastCall.args[3] # NoDate
    /\ lastCall.args[4] # NoDate
    /\ Len(lastCall.args[6]) >= 3
    /\ lastCall.args[6][1] > lastCall.args[3]

\* The month and day of each date of a list, all of them in 2026.
InYear2026(dates) == \A i \in 1..Len(dates) : DateOf(dates[i]).year = 2026
MonthAndDay(dates) == [i \in 1..Len(dates) |-> <<DateOf(dates[i]).month, DateOf(dates[i]).day>>]
SeedingOfMondayWednesdayFriday ==
    /\ lastCall.op = "generate_occurrences"
    /\ SubSeq(lastCall.args, 1, 5) = <<MondayWednesdayFriday, DayNumber(2026, 1, 5), NoDate,
                                       NoDate, DEFAULT_MAX_OCCURRENCES>>
January12 ==
    <<<<1, 5>>, <<1, 7>>, <<1, 9>>, <<1, 12>>, <<1, 14>>, <<1, 16>>,
      <<1, 19>>, <<1, 21>>, <<1, 23>>, <<1, 26>>, <<1, 28>>, <<1, 30>>>>

\* C30: a weekly Monday/Wednesday/Friday series anchored on Monday 2026-01-05,
\* enumerated with the default window and cap 30, yields the 12 dates of
\* January from the 5th to the 30th and then 2026-02-02 and 2026-02-04: the
\* default window ends 30 days after the anchor, on 2026-02-04, inclusive.
C30_FourteenDates ==
    SeedingOfMondayWednesdayFriday =>
      /\ InYear2026(lastCall.args[6])
      /\ MonthAndDay(lastCall.args[6]) = January12 \o <<<<2, 2>>, <<2, 4>>>>

\* C30 as stated: exactly the 12 dates of January, none in February.
C30_TwelveDates ==
    SeedingOfMondayWednesdayFriday =>
      /\ InYear2026(lastCall.args[6])
      /\ MonthAndDay(lastCall.args[6]) = January12

\* The enumeration of that series was made and its last date is in February.
C30_Witness ==
    /\ SeedingOfMondayWednesdayFriday
    /\ Len(lastCall.args[6]) = 14
    /\ DateOf(lastCall.args[6][14]).month = 2

\* The dates of the rule anchored at start_date that are strictly later than
\* ref_date, in order, looked for up to a year and a day past the later of
\* the two (every rule drawn has its next date, if any, in that span).
DatesAfter(rule, start_date, ref_date) ==
    LET from == IF ref_date > start_date THEN ref_date ELSE start_date
    IN SelectSeq(RuleDates(rule, start_date, from + LOOKAHEAD_DAYS + 1),
                 LAMBDA d : d > ref_date)

\* C31: get_next_occurrence returns the smallest date of the rule strictly
\* later than the reference date, never the reference date itself, and none
\* only when the rule has no date after the reference date.
C31_NextIsStrictlyAfter ==
    lastCall.op = "get_next_occurrence" =>
        LET rule == ConfigToRRule(lastCall.args[1])
            ref == IF lastCall.args[3] = NoDate THEN Today ELSE lastCall.args[3]
            later == DatesAfter(rule, lastCall.args[2], ref)
        IN lastCall.args[4] = IF later # << >> THEN later[1] ELSE NoDate

\* C32: the number in a digest title is the number of the user's
\* non-recurring incomplete todos due today plus the number of the user's
\* pending occurrences of today, a series head due today not being counted
\* as a non-recurring todo.
C32_DigestCountsEachItemOnce ==
    [][\A n \in DOMAIN notifications' \ DOMAIN notifications :
         notifications'[n].type = "daily_digest" =>
            LET u == notifications'[n].user_id
                oneOff == {t \in DOMAIN todos : /\ todos[t].user_id = u
                                                 /\ ~todos[t].is_recurring
                                                 /\ todos[t].due_date = Today
                                                 /\ ~todos[t].completed}
            IN notifications'[n].title.count =
                  Cardinality(oneOff) + Cardinality(PendingToday(occurrences, u, Today))]_vars

\* Whether the user's digest is due at instant t: enabled, a time set, and the
\* hour of t in the user's timezone is the hour of the digest time.
DigestDue(pref, t) ==
    /\ pref.daily_digest_enabled
    /\ pref.daily_digest_time # NoHour
    /\ LocalHour(t, pref.timezone) = pref.daily_digest_time

\* The user's digests created in the local day of instant t.
DigestsOfLocalDay(ns, pref, t) ==
    {n \in Digests(ns, pref.user_id) :
        LocalDay(ns[n].created_at, pref.timezone) = LocalDay(t, pref.timezone)}

\* C33: a digest run creates a daily_digest notification for a user only if
\* the digest is enabled, has a time, and the local hour is the digest hour;
\* at the first such run of a local day (none of the user's digests was
\* created in that local day) exactly one is created, titled "Daily Digest:
\* No tasks due today" when nothing is due.
C33_DigestAtTheLocalHour ==
    [][ProcessDailyDigests =>
          \A u \in Users :
             LET new == Digests(notifications', u) \ DOMAIN notifications
             IN /\ new # {} => DigestDue(prefs[u], now)
                /\ (DigestDue(prefs[u], now) /\ DigestsOfLocalDay(notifications, prefs[u], now) = {})
                      => /\ Cardinality(new) = 1
                         /\ \A n \in new :
                               TotalCount(todos, occurrences, u, Today) = 0
                                  => notifications'[n].title.text = "Daily Digest: No tasks due today"]_vars

----------------------------------------------------------------------------
\* Properties of a single dispatcher tick

Eligible(r) == reminders[r].status \in {"pending", "snoozed"} /\ reminders[r].fire_at <= now

----------------------------------------------------------------------------
\* Properties of todo creation

\* C36: create_todo with a recurrence configuration and no due date is
\* rejected and writes nothing: the todos, occurrences and reminders are
\* those there were before.
C36_NoDueDateIsRejected ==
    [][\A u \in CapUsers, config \in DueConfigs \ {NoRecurrence} :
         CreateTodo(u, NoDate, config) =>
            /\ lastCall'.result = "validation_error"
            /\ todos' = todos
            /\ occurrences' = occurrences
            /\ reminders' = reminders
            /\ nextId' = nextId]_vars

\* A recurring todo without a due date has just been refused while a series
\* was already on file.
C36_Witness ==
    /\ lastCall = Call("create_todo", Null, "validation_error")
    /\ \E t \in DOMAIN todos : todos[t].is_recurring
    /\ occurrences # << >>
    /\ \A t \in DOMAIN todos : todos[t].is_recurring => todos[t].due_date # NoDate

----------------------------------------------------------------------------
\* Properties of the series as a whole

\* Whether d is a date of the rule anchored at anchor (COUNT included).
OnRule(rule, anchor, d) == \E i \in DOMAIN RuleDates(rule, anchor, d) :
                              RuleDates(rule, anchor, d)[i] = d

\* C37: every occurrence on file of a series is a date of the series' rule
\* anchored at the head's due date, whichever path wrote it.
C37_OccurrencesOnTheRule ==
    \A o \in DOMAIN occurrences :
       LET t == occurrences[o].parent_todo_id
       IN (t \in DOMAIN todos /\ todos[t].rrule # NoRule /\ todos[t].due_date # NoDate)
             => OnRule(todos[t].rrule, todos[t].due_date, occurrences[o].occurrence_date)

\* C38: a series created with an end count never has more occurrences on
\* file than that count (no path removes the occurrences of a running
\* series, so the rows on file are the occurrences ever written).
C38_AtMostEndCount ==
    \A t \in DOMAIN todos :
       (todos[t].is_recurring /\ todos[t].recurrence_count # NoCount)
          => Cardinality(OccurrencesOf(occurrences, t)) <= todos[t].recurrence_count

\* The series of SpecStop have no end date of their own, so a todo with a
\* recurrence_end_date is a series that stop_recurring has ended.
Ended(t) == t \in DOMAIN todos /\ todos[t].recurrence_end_date # NoDate

\* C39: once stop_recurring has succeeded for a series, no step creates an
\* occurrence for it: completions, skips, this_only edits and generation
\* runs leave its occurrence rows and their dates as they are, and the
\* series stays stopped.
C39_NoOccurrenceAfterStop ==
    [][\A t \in DOMAIN todos :
         Ended(t) => /\ OccurrencesOf(occurrences', t) = OccurrencesOf(occurrences, t)
                     /\ ExistingDates(occurrences', t) = ExistingDates(occurrences, t)
                     /\ t \in DOMAIN todos'
                     /\ ~todos'[t].is_recurring
                     /\ todos'[t].rrule = NoRule]_vars

\* A retained occurrence of a stopped series has just been completed, which
\* left fewer than MIN_FUTURE pending ones: a running series would have been
\* topped up.
C39_Witness ==
    /\ Ended(1)
    /\ lastCall.op = "complete_occurrence"
    /\ lastCall.result = "ok"
    /\ lastCall.id \in OccurrencesOf(occurrences, 1)
    /\ occurrences[lastCall.id].status = "completed"
    /\ \E o \in OccurrencesOf(occurrences, 1) :
         occurrences[o].status = "pending" /\ occurrences[o].occurrence_date >= Today
    /\ Cardinality(PendingFromToday(occurrences, 1, Today)) < MIN_FUTURE

----------------------------------------------------------------------------
\* Properties of the notification inbox

\* C40: marking a notification of one's own that is already read leaves it
\* read, changes no notification, and is answered as a success, not as not
\* found.
C40_MarkReadIsIdempotent ==
    [][\A u \in Users, n \in DOMAIN notifications :
         (/\ notifications[n].user_id = u
          /\ notifications[n].read
          /\ MarkNotificationRead(u, n))
         => /\ notifications' = notifications
            /\ lastCall'.result = "ok"]_vars
====
